---- MODULE Spec2Model ----
(***************************************************************************)
(* A model of the vscode-diff library: the geometry value types (Position, *)
(* Range, OffsetRange, LineRange), the line/character mapping construction *)
(* (LineRangeMapping, RangeMapping, lineRangeMappingFromRangeMappings) and  *)
(* the diff computer facade (computeDiff).                                  *)
(***************************************************************************)
EXTENDS Integers, Sequences, FiniteSets, TLC

(***************************************************************************)
(* Bounds of the model.                                                    *)
(***************************************************************************)
\* line numbers and columns handed to the Range constructor: 1..MaxCoord
MaxCoord == 3
\* offsets / line numbers handed to OffsetRange and LineRange: 0..MaxOffset
MaxOffset == 3
\* lines of the original and the modified text together
MaxTotalLines == 4
\* characters of the original and the modified text together
MaxTotalChars == 1
\* alignments handed to lineRangeMappingFromRangeMappings
MaxAlign == 2
\* replacements of one edit
MaxReplacements == 2
\* line numbers and columns of the ranges of joined RangeMappings
MaxMapCoord == 2
\* tasks queued in a Limiter
MaxTasks == 3
\* the largest maximum degree of parallelism of a Limiter
MaxDegree == 2

\* Number.MAX_SAFE_INTEGER is 2^53 - 1; TLC integers have 32 bits, so the
\* model uses the largest TLC integer.  It is only compared with columns.
MAX_SAFE_INTEGER == 2147483647

VARIABLES
    rangeCall,      \* the last Range operation called and its arguments
    rangeOut,       \* the Range it returned
    offCall,        \* the last OffsetRange / LineRange operation and its arguments
    offOut,         \* what it returned: a range, undefined, a boolean or an error
    originalLines,  \* the original text: a sequence of lines, each a sequence of characters
    modifiedLines,  \* the modified text
    alignments,     \* the RangeMapping[] handed to lineRangeMappingFromRangeMappings
    changes,        \* the DetailedLineRangeMapping[] it returned (empty before)
    assertFailed,   \* whether assertFn reported a failed assertion (onUnexpectedError)
    lrmPc,          \* "idle", "input" (alignments are being pushed), "done", "threw"
                    \* or "mapped" (getLineRangeMapping was called on its own)
    options,        \* the options computeDiff is called with
    timedOutAt,     \* where the time budget ran out: "none", "lines" or "chars"
    quitEarly,      \* the quitEarly flag of the result
    lineChanges,    \* the ILineChange[] the legacy computer returned
    diffPc,         \* "idle", "start", "done", "legacyDone" or "threw"
    sortedRanges,   \* OffsetRangeSet._sortedRanges
    addedOffsets,   \* the offsets of all ranges added to the OffsetRangeSet so far
    setCall,        \* the last OffsetRangeSet call: its range and the ranges before it
    normalizedRanges, \* LineRangeSet._normalizedRanges
    lineSetCall,    \* the last LineRangeSet call, its arguments and its result
    addedLines,     \* the line numbers of all ranges added to the LineRangeSet so far
    limiter,        \* the fields of a Limiter
    promises,       \* the state of each task and of the promise its factory returns
    startOrder,     \* the tasks whose factory was called, in the order of the calls
    limiterCall,    \* the last Limiter operation or callback and whether it threw
    editCall,       \* the last string edit operation called and its arguments
    editOut,        \* what it returned: a string, a replacement, undefined or an error
    mapCall,        \* the last mapping operation called and its arguments
    mapOut          \* what it returned: a mapping or an error

rangeVars == <<rangeCall, rangeOut>>
offVars == <<offCall, offOut>>
lrmVars == <<originalLines, modifiedLines, alignments, changes, assertFailed, lrmPc>>
diffVars == <<options, timedOutAt, quitEarly, lineChanges, diffPc>>
setVars == <<sortedRanges, setCall, addedOffsets>>
lineSetVars == <<normalizedRanges, lineSetCall, addedLines>>
limiterVars == <<limiter, promises, startOrder, limiterCall>>
editVars == <<editCall, editOut>>
mapVars == <<mapCall, mapOut>>
vars == <<rangeCall, rangeOut, offCall, offOut,
          originalLines, modifiedLines, alignments, changes, assertFailed, lrmPc,
          options, timedOutAt, quitEarly, lineChanges, diffPc,
          sortedRanges, setCall, addedOffsets, normalizedRanges, lineSetCall, addedLines,
          limiter, promises, startOrder, limiterCall,
          editCall, editOut, mapCall, mapOut>>

Min(a, b) == IF a < b THEN a ELSE b
Max(a, b) == IF a > b THEN a ELSE b

\* a call that has not happened yet, and the values a call can produce
NoCall == [op |-> "none"]
Undefined == [kind |-> "undefined"]
BugIndicatingError == [kind |-> "BugIndicatingError"]

(***************************************************************************)
(* Position                                                                *)
(***************************************************************************)
Position(lineNumber, column) == [lineNumber |-> lineNumber, column |-> column]

isBefore(a, b) ==
    IF a.lineNumber < b.lineNumber THEN TRUE
    ELSE IF b.lineNumber < a.lineNumber THEN FALSE
    ELSE a.column < b.column

isBeforeOrEqual(a, b) ==
    IF a.lineNumber < b.lineNumber THEN TRUE
    ELSE IF b.lineNumber < a.lineNumber THEN FALSE
    ELSE a.column <= b.column

(***************************************************************************)
(* Range                                                                   *)
(***************************************************************************)
RawRange(sl, sc, el, ec) ==
    [startLineNumber |-> sl, startColumn |-> sc, endLineNumber |-> el, endColumn |-> ec]

\* the constructor without the swap of out-of-order endpoints
RangeNoSwap(startLineNumber, startColumn, endLineNumber, endColumn) ==
    RawRange(startLineNumber, startColumn, endLineNumber, endColumn)

Range(startLineNumber, startColumn, endLineNumber, endColumn) ==
    IF (startLineNumber > endLineNumber)
       \/ (startLineNumber = endLineNumber /\ startColumn > endColumn)
    THEN RawRange(endLineNumber, endColumn, startLineNumber, startColumn)
    ELSE RawRange(startLineNumber, startColumn, endLineNumber, endColumn)

containsRange(range, otherRange) ==
    IF otherRange.startLineNumber < range.startLineNumber
       \/ otherRange.endLineNumber < range.startLineNumber THEN FALSE
    ELSE IF otherRange.startLineNumber > range.endLineNumber
       \/ otherRange.endLineNumber > range.endLineNumber THEN FALSE
    ELSE IF otherRange.startLineNumber = range.startLineNumber
       /\ otherRange.startColumn < range.startColumn THEN FALSE
    ELSE IF otherRange.endLineNumber = range.endLineNumber
       /\ otherRange.endColumn > range.endColumn THEN FALSE
    ELSE TRUE

\* a union that takes the smallest and the largest column of any line
plusRangeColumnsOfAnyLine(a, b) ==
    Range(Min(a.startLineNumber, b.startLineNumber), Min(a.startColumn, b.startColumn),
          Max(a.endLineNumber, b.endLineNumber), Max(a.endColumn, b.endColumn))

plusRange(a, b) ==
    LET startLineNumber ==
            IF b.startLineNumber < a.startLineNumber THEN b.startLineNumber
            ELSE IF b.startLineNumber = a.startLineNumber THEN b.startLineNumber
            ELSE a.startLineNumber
        startColumn ==
            IF b.startLineNumber < a.startLineNumber THEN b.startColumn
            ELSE IF b.startLineNumber = a.startLineNumber
                 THEN Min(b.startColumn, a.startColumn)
            ELSE a.startColumn
        endLineNumber ==
            IF b.endLineNumber > a.endLineNumber THEN b.endLineNumber
            ELSE IF b.endLineNumber = a.endLineNumber THEN b.endLineNumber
            ELSE a.endLineNumber
        endColumn ==
            IF b.endLineNumber > a.endLineNumber THEN b.endColumn
            ELSE IF b.endLineNumber = a.endLineNumber
                 THEN Max(b.endColumn, a.endColumn)
            ELSE a.endColumn
    IN Range(startLineNumber, startColumn, endLineNumber, endColumn)

equalsRange(a, b) ==
    /\ a.startLineNumber = b.startLineNumber
    /\ a.startColumn = b.startColumn
    /\ a.endLineNumber = b.endLineNumber
    /\ a.endColumn = b.endColumn

getEndPosition(range) == Position(range.endLineNumber, range.endColumn)
getStartPosition(range) == Position(range.startLineNumber, range.startColumn)

fromPositions(start, end) ==
    Range(start.lineNumber, start.column, end.lineNumber, end.column)

RangeIsEmpty(range) ==
    range.startLineNumber = range.endLineNumber /\ range.startColumn = range.endColumn

(***************************************************************************)
(* The Range operations as actions: the arguments are drawn from the       *)
(* coordinates 1..MaxCoord; plusRange takes any two IRange objects.        *)
(***************************************************************************)
Coord == 1..MaxCoord
IRanges == {RawRange(sl, sc, el, ec) : sl \in Coord, sc \in Coord, el \in Coord, ec \in Coord}
Positions == {Position(l, c) : l \in Coord, c \in Coord}

\* no Range operation has been called
RangeIdle ==
    /\ rangeCall = NoCall
    /\ rangeOut = Undefined

NewRange ==
    /\ rangeCall = NoCall
    /\ \E sl \in Coord, sc \in Coord, el \in Coord, ec \in Coord :
        /\ rangeCall' = [op |-> "new", args |-> <<sl, sc, el, ec>>]
        /\ rangeOut' = Range(sl, sc, el, ec)
        /\ UNCHANGED <<offVars, lrmVars, diffVars, setVars, lineSetVars, limiterVars, editVars, mapVars>>

PlusRange ==
    /\ rangeCall = NoCall
    /\ \E a \in IRanges, b \in IRanges :
        /\ rangeCall' = [op |-> "plusRange", args |-> <<a, b>>]
        /\ rangeOut' = plusRange(a, b)
        /\ UNCHANGED <<offVars, lrmVars, diffVars, setVars, lineSetVars, limiterVars, editVars, mapVars>>

FromPositions ==
    /\ rangeCall = NoCall
    /\ \E start \in Positions, end \in Positions :
        /\ rangeCall' = [op |-> "fromPositions", args |-> <<start, end>>]
        /\ rangeOut' = fromPositions(start, end)
        /\ UNCHANGED <<offVars, lrmVars, diffVars, setVars, lineSetVars, limiterVars, editVars, mapVars>>

NextRange == NewRange \/ PlusRange \/ FromPositions

(***************************************************************************)
(* OffsetRange (0-based, half-open)                                        *)
(***************************************************************************)
IsError(v) == v = BugIndicatingError

RawOffsetRange(start, endExclusive) ==
    [kind |-> "OffsetRange", start |-> start, endExclusive |-> endExclusive]

\* the constructor without its check
OffsetRangeUnchecked(start, endExclusive) == RawOffsetRange(start, endExclusive)

OffsetRange(start, endExclusive) ==
    IF start > endExclusive THEN BugIndicatingError
    ELSE RawOffsetRange(start, endExclusive)

OffsetRangeIsEmpty(r) == r.start = r.endExclusive
OffsetRangeLength(r) == r.endExclusive - r.start

OffsetRangeDelta(r, offset) == OffsetRange(r.start + offset, r.endExclusive + offset)
deltaStart(r, offset) == OffsetRange(r.start + offset, r.endExclusive)
deltaEnd(r, offset) == OffsetRange(r.start, r.endExclusive + offset)

OffsetRangeJoin(r, other) ==
    OffsetRange(Min(r.start, other.start), Max(r.endExclusive, other.endExclusive))

\* intersect with the touching case left out
OffsetRangeIntersectStrict(r, other) ==
    LET start == Max(r.start, other.start)
        end == Min(r.endExclusive, other.endExclusive)
    IN IF start < end THEN OffsetRange(start, end) ELSE Undefined

OffsetRangeIntersect(r, other) ==
    LET start == Max(r.start, other.start)
        end == Min(r.endExclusive, other.endExclusive)
    IN IF start <= end THEN OffsetRange(start, end) ELSE Undefined

intersects(r, other) ==
    LET start == Max(r.start, other.start)
        end == Min(r.endExclusive, other.endExclusive)
    IN start < end

OffsetRangeIntersectsOrTouches(r, other) ==
    LET start == Max(r.start, other.start)
        end == Min(r.endExclusive, other.endExclusive)
    IN start <= end

\* a range join that does not require the ranges to touch
joinRightTouchingUnchecked(r, range) == OffsetRange(r.start, range.endExclusive)

joinRightTouching(r, range) ==
    IF r.endExclusive # range.start THEN BugIndicatingError
    ELSE OffsetRange(r.start, range.endExclusive)

(***************************************************************************)
(* LineRange (1-based, half-open)                                          *)
(***************************************************************************)
RawLineRange(startLineNumber, endLineNumberExclusive) ==
    [kind |-> "LineRange", startLineNumber |-> startLineNumber,
     endLineNumberExclusive |-> endLineNumberExclusive]

LineRange(startLineNumber, endLineNumberExclusive) ==
    IF startLineNumber > endLineNumberExclusive THEN BugIndicatingError
    ELSE RawLineRange(startLineNumber, endLineNumberExclusive)

LineRangeIsEmpty(r) == r.startLineNumber = r.endLineNumberExclusive
LineRangeLength(r) == r.endLineNumberExclusive - r.startLineNumber

LineRangeDelta(r, offset) ==
    LineRange(r.startLineNumber + offset, r.endLineNumberExclusive + offset)

LineRangeJoin(r, other) ==
    LineRange(Min(r.startLineNumber, other.startLineNumber),
              Max(r.endLineNumberExclusive, other.endLineNumberExclusive))

LineRangeIntersect(r, other) ==
    LET startLineNumber == Max(r.startLineNumber, other.startLineNumber)
        endLineNumberExclusive == Min(r.endLineNumberExclusive, other.endLineNumberExclusive)
    IN IF startLineNumber <= endLineNumberExclusive
       THEN LineRange(startLineNumber, endLineNumberExclusive)
       ELSE Undefined

LineRangeIntersectsOrTouches(r, other) ==
    /\ r.startLineNumber <= other.endLineNumberExclusive
    /\ other.startLineNumber <= r.endLineNumberExclusive

toInclusiveRange(r) ==
    IF LineRangeIsEmpty(r) THEN Undefined
    ELSE Range(r.startLineNumber, 1, r.endLineNumberExclusive - 1, MAX_SAFE_INTEGER)

toOffsetRange(r) == OffsetRange(r.startLineNumber - 1, r.endLineNumberExclusive - 1)

(***************************************************************************)
(* The OffsetRange and LineRange operations as actions.  The receivers and *)
(* arguments are the ranges the constructors build from 0..MaxOffset.      *)
(***************************************************************************)
Offsets == 0..MaxOffset
Deltas == (0 - MaxOffset)..MaxOffset
OffsetRanges == {OffsetRange(s, e) : s \in Offsets, e \in Offsets} \ {BugIndicatingError}
LineRanges == {LineRange(s, e) : s \in Offsets, e \in Offsets} \ {BugIndicatingError}

\* no OffsetRange / LineRange operation has been called
OffIdle ==
    /\ offCall = NoCall
    /\ offOut = Undefined

NewOffsetRange ==
    /\ offCall = NoCall
    /\ \E start \in Offsets, endExclusive \in Offsets :
        /\ offCall' = [op |-> "new OffsetRange", args |-> <<start, endExclusive>>]
        /\ offOut' = OffsetRange(start, endExclusive)
        /\ UNCHANGED <<rangeVars, lrmVars, diffVars, setVars, lineSetVars, limiterVars, editVars, mapVars>>

OffsetRangeDeltaCall ==
    /\ offCall = NoCall
    /\ \E r \in OffsetRanges, offset \in Deltas :
        /\ offCall' = [op |-> "OffsetRange.delta", args |-> <<r, offset>>]
        /\ offOut' = OffsetRangeDelta(r, offset)
        /\ UNCHANGED <<rangeVars, lrmVars, diffVars, setVars, lineSetVars, limiterVars, editVars, mapVars>>

DeltaStartCall ==
    /\ offCall = NoCall
    /\ \E r \in OffsetRanges, offset \in Deltas :
        /\ offCall' = [op |-> "OffsetRange.deltaStart", args |-> <<r, offset>>]
        /\ offOut' = deltaStart(r, offset)
        /\ UNCHANGED <<rangeVars, lrmVars, diffVars, setVars, lineSetVars, limiterVars, editVars, mapVars>>

DeltaEndCall ==
    /\ offCall = NoCall
    /\ \E r \in OffsetRanges, offset \in Deltas :
        /\ offCall' = [op |-> "OffsetRange.deltaEnd", args |-> <<r, offset>>]
        /\ offOut' = deltaEnd(r, offset)
        /\ UNCHANGED <<rangeVars, lrmVars, diffVars, setVars, lineSetVars, limiterVars, editVars, mapVars>>

OffsetRangeJoinCall ==
    /\ offCall = NoCall
    /\ \E r \in OffsetRanges, other \in OffsetRanges :
        /\ offCall' = [op |-> "OffsetRange.join", args |-> <<r, other>>]
        /\ offOut' = OffsetRangeJoin(r, other)
        /\ UNCHANGED <<rangeVars, lrmVars, diffVars, setVars, lineSetVars, limiterVars, editVars, mapVars>>

OffsetRangeIntersectCall ==
    /\ offCall = NoCall
    /\ \E r \in OffsetRanges, other \in OffsetRanges :
        /\ offCall' = [op |-> "OffsetRange.intersect", args |-> <<r, other>>]
        /\ offOut' = OffsetRangeIntersect(r, other)
        /\ UNCHANGED <<rangeVars, lrmVars, diffVars, setVars, lineSetVars, limiterVars, editVars, mapVars>>

JoinRightTouchingCall ==
    /\ offCall = NoCall
    /\ \E r \in OffsetRanges, range \in OffsetRanges :
        /\ offCall' = [op |-> "OffsetRange.joinRightTouching", args |-> <<r, range>>]
        /\ offOut' = joinRightTouching(r, range)
        /\ UNCHANGED <<rangeVars, lrmVars, diffVars, setVars, lineSetVars, limiterVars, editVars, mapVars>>

NewLineRange ==
    /\ offCall = NoCall
    /\ \E startLineNumber \in Offsets, endLineNumberExclusive \in Offsets :
        /\ offCall' = [op |-> "new LineRange",
                       args |-> <<startLineNumber, endLineNumberExclusive>>]
        /\ offOut' = LineRange(startLineNumber, endLineNumberExclusive)
        /\ UNCHANGED <<rangeVars, lrmVars, diffVars, setVars, lineSetVars, limiterVars, editVars, mapVars>>

LineRangeDeltaCall ==
    /\ offCall = NoCall
    /\ \E r \in LineRanges, offset \in Deltas :
        /\ offCall' = [op |-> "LineRange.delta", args |-> <<r, offset>>]
        /\ offOut' = LineRangeDelta(r, offset)
        /\ UNCHANGED <<rangeVars, lrmVars, diffVars, setVars, lineSetVars, limiterVars, editVars, mapVars>>

LineRangeJoinCall ==
    /\ offCall = NoCall
    /\ \E r \in LineRanges, other \in LineRanges :
        /\ offCall' = [op |-> "LineRange.join", args |-> <<r, other>>]
        /\ offOut' = LineRangeJoin(r, other)
        /\ UNCHANGED <<rangeVars, lrmVars, diffVars, setVars, lineSetVars, limiterVars, editVars, mapVars>>

LineRangeIntersectCall ==
    /\ offCall = NoCall
    /\ \E r \in LineRanges, other \in LineRanges :
        /\ offCall' = [op |-> "LineRange.intersect", args |-> <<r, other>>]
        /\ offOut' = LineRangeIntersect(r, other)
        /\ UNCHANGED <<rangeVars, lrmVars, diffVars, setVars, lineSetVars, limiterVars, editVars, mapVars>>

ToOffsetRangeCall ==
    /\ offCall = NoCall
    /\ \E r \in LineRanges :
        /\ offCall' = [op |-> "LineRange.toOffsetRange", args |-> <<r>>]
        /\ offOut' = toOffsetRange(r)
        /\ UNCHANGED <<rangeVars, lrmVars, diffVars, setVars, lineSetVars, limiterVars, editVars, mapVars>>

NextOff ==
    \/ NewOffsetRange \/ OffsetRangeDeltaCall \/ DeltaStartCall \/ DeltaEndCall
    \/ OffsetRangeJoinCall \/ OffsetRangeIntersectCall \/ JoinRightTouchingCall
    \/ NewLineRange \/ LineRangeDeltaCall \/ LineRangeJoinCall
    \/ LineRangeIntersectCall \/ ToOffsetRangeCall

(***************************************************************************)
(* OffsetRangeSet: a sorted array of OffsetRanges, changed by addRange.     *)
(***************************************************************************)
\* Array.prototype.splice on a copy: deleteCount items from index start
\* (0-based) are replaced by items
splice(arr, start, deleteCount, items) ==
    SubSeq(arr, 1, start) \o items \o SubSeq(arr, start + deleteCount + 1, Len(arr))

\* first loop of addRange: skips the ranges that end before range starts
RECURSIVE addRangeI(_, _, _)
addRangeI(ranges, range, i) ==
    IF i < Len(ranges) /\ ranges[i + 1].endExclusive < range.start
    THEN addRangeI(ranges, range, i + 1) ELSE i

\* a first loop that also skips the ranges that end where range starts
RECURSIVE addRangeIStrict(_, _, _)
addRangeIStrict(ranges, range, i) ==
    IF i < Len(ranges) /\ ranges[i + 1].endExclusive <= range.start
    THEN addRangeIStrict(ranges, range, i + 1) ELSE i

\* second loop of addRange: passes the ranges that start at or before its end
RECURSIVE addRangeJ(_, _, _)
addRangeJ(ranges, range, j) ==
    IF j < Len(ranges) /\ ranges[j + 1].start <= range.endExclusive
    THEN addRangeJ(ranges, range, j + 1) ELSE j

\* the rest of addRange once i is known
addRangeFrom(ranges, range, i) ==
    LET j == addRangeJ(ranges, range, i)
    IN IF i = j
       THEN splice(ranges, i, 0, <<range>>)
       ELSE splice(ranges, i, j - i,
                   <<OffsetRange(Min(range.start, ranges[i + 1].start),
                                 Max(range.endExclusive, ranges[j].endExclusive))>>)

addRangeNoTouchLeft(ranges, range) ==
    addRangeFrom(ranges, range, addRangeIStrict(ranges, range, 0))

addRange(ranges, range) ==
    addRangeFrom(ranges, range, addRangeI(ranges, range, 0))

\* no string edit operation has been called
EditIdle ==
    /\ editCall = NoCall
    /\ editOut = Undefined

\* no mapping operation has been called
MapIdle ==
    /\ mapCall = NoCall
    /\ mapOut = Undefined

\* new Limiter(maxDegreeOfParalellism)
NewLimiter(maxDegreeOfParalellism) ==
    [size |-> 0, isDisposed |-> FALSE, runningPromises |-> 0,
     maxDegreeOfParalellism |-> maxDegreeOfParalellism,
     outstandingPromises |-> <<>>, onDrainedFired |-> FALSE]

\* tasks are numbered in the order in which they are queued
Tasks == 1..MaxTasks

LimiterIdle ==
    /\ limiter = NewLimiter(1)
    /\ promises = [t \in Tasks |-> "unqueued"]
    /\ startOrder = <<>>
    /\ limiterCall = NoCall

\* a new LineRangeSet
LineSetIdle ==
    /\ normalizedRanges = <<>>
    /\ lineSetCall = NoCall
    /\ addedLines = {}

\* a new OffsetRangeSet
SetIdle ==
    /\ sortedRanges = <<>>
    /\ setCall = NoCall
    /\ addedOffsets = {}

\* the offsets an OffsetRange contains
OffsetsOf(range) == {n \in Offsets : range.start <= n /\ n < range.endExclusive}

\* the loop of intersectsStrict
RECURSIVE intersectsStrictI(_, _, _)
intersectsStrictI(ranges, other, i) ==
    IF i < Len(ranges) /\ ranges[i + 1].endExclusive <= other.start
    THEN intersectsStrictI(ranges, other, i + 1) ELSE i

intersectsStrict(ranges, other) ==
    LET i == intersectsStrictI(ranges, other, 0)
    IN i < Len(ranges) /\ ranges[i + 1].start < other.endExclusive

\* the loop of intersectWithRange from the k-th stored range on
RECURSIVE intersectWithRangeLoop(_, _, _, _)
intersectWithRangeLoop(ranges, other, k, result) ==
    IF k > Len(ranges) THEN result
    ELSE LET intersection == OffsetRangeIntersect(ranges[k], other)
         IN intersectWithRangeLoop(ranges, other, k + 1,
                IF intersection # Undefined THEN addRange(result, intersection)
                ELSE result)

intersectWithRange(ranges, other) == intersectWithRangeLoop(ranges, other, 1, <<>>)

\* the number of stored ranges instead of the sum of their lengths
OffsetRangeSetLengthCount(ranges) == Len(ranges)

\* OffsetRangeSet.length
RECURSIVE OffsetRangeSetLength(_)
OffsetRangeSetLength(ranges) ==
    IF ranges = <<>> THEN 0
    ELSE OffsetRangeSetLength(SubSeq(ranges, 1, Len(ranges) - 1))
           + OffsetRangeLength(ranges[Len(ranges)])

intersectWithRangeLength(ranges, other) ==
    OffsetRangeSetLength(intersectWithRange(ranges, other))

AddRange ==
    /\ \E range \in OffsetRanges :
          /\ setCall' = [op |-> "addRange", range |-> range, before |-> sortedRanges]
          /\ sortedRanges' = addRange(sortedRanges, range)
          /\ addedOffsets' = addedOffsets \cup OffsetsOf(range)
    /\ UNCHANGED <<rangeVars, offVars, lrmVars, diffVars, lineSetVars, limiterVars, editVars, mapVars>>

IntersectsStrict ==
    /\ \E other \in OffsetRanges :
          setCall' = [op |-> "intersectsStrict", range |-> other,
                      result |-> intersectsStrict(sortedRanges, other)]
    /\ UNCHANGED <<rangeVars, offVars, lrmVars, diffVars, lineSetVars, limiterVars, editVars, mapVars,
                   sortedRanges, addedOffsets>>

IntersectWithRangeLength ==
    /\ \E other \in OffsetRanges :
          setCall' = [op |-> "intersectWithRangeLength", range |-> other,
                      result |-> intersectWithRangeLength(sortedRanges, other)]
    /\ UNCHANGED <<rangeVars, offVars, lrmVars, diffVars, lineSetVars, limiterVars, editVars, mapVars,
                   sortedRanges, addedOffsets>>

GetLength ==
    /\ setCall' = [op |-> "length", result |-> OffsetRangeSetLength(sortedRanges)]
    /\ UNCHANGED <<rangeVars, offVars, lrmVars, diffVars, lineSetVars, limiterVars, editVars, mapVars,
                   sortedRanges, addedOffsets>>

NextSet == AddRange \/ IntersectsStrict \/ IntersectWithRangeLength \/ GetLength

(***************************************************************************)
(* LineRangeSet: sorted line ranges that neither touch nor intersect.      *)
(***************************************************************************)
\* The helpers of arraysFind.ts search an array on which the predicate is
\* monotonous; trueItems holds the items the predicate is true for.  Indices
\* are 0-based as in the code.
findFirstIdxMonotonousOrArrLen(arr, trueItems) ==
    IF \E i \in 1..Len(arr) : arr[i] \in trueItems
    THEN (CHOOSE i \in 1..Len(arr) :
              arr[i] \in trueItems /\ \A j \in 1..(i - 1) : arr[j] \notin trueItems) - 1
    ELSE Len(arr)

findLastIdxMonotonous(arr, trueItems) ==
    IF \E i \in 1..Len(arr) : arr[i] \in trueItems
    THEN (CHOOSE i \in 1..Len(arr) :
              arr[i] \in trueItems /\ \A j \in (i + 1)..Len(arr) : arr[j] \notin trueItems) - 1
    ELSE 0 - 1

findLastMonotonous(arr, trueItems) ==
    LET idx == findLastIdxMonotonous(arr, trueItems)
    IN IF idx = 0 - 1 THEN Undefined ELSE arr[idx + 1]

\* idx of first element that touches range or that is after range
joinRangeStartIdx(ranges, range) ==
    findFirstIdxMonotonousOrArrLen(ranges,
        {r \in {ranges[k] : k \in 1..Len(ranges)} :
            r.endLineNumberExclusive >= range.startLineNumber})

\* idx of element after { last element that touches range or that is before range }
joinRangeEndIdxExclusive(ranges, range) ==
    findLastIdxMonotonous(ranges,
        {r \in {ranges[k] : k \in 1..Len(ranges)} :
            r.startLineNumber <= range.endLineNumberExclusive}) + 1

\* addRange without its test for an empty range
LineRangeSetAddRangeAlways(ranges, range) ==
    LET startIdx == joinRangeStartIdx(ranges, range)
        endIdxExclusive == joinRangeEndIdxExclusive(ranges, range)
    IN IF startIdx = endIdxExclusive
       THEN splice(ranges, startIdx, 0, <<range>>)
       ELSE IF startIdx = endIdxExclusive - 1
       THEN [ranges EXCEPT ![startIdx + 1] = LineRangeJoin(ranges[startIdx + 1], range)]
       ELSE splice(ranges, startIdx, endIdxExclusive - startIdx,
                   <<LineRangeJoin(LineRangeJoin(ranges[startIdx + 1], ranges[endIdxExclusive]),
                                   range)>>)

\* LineRangeSet.addRange
LineRangeSetAddRange(ranges, range) ==
    IF LineRangeLength(range) = 0 THEN ranges
    ELSE LineRangeSetAddRangeAlways(ranges, range)

\* LineRangeSet.contains
contains(ranges, lineNumber) ==
    LET rangeThatStartsBeforeEnd ==
            findLastMonotonous(ranges,
                {r \in {ranges[k] : k \in 1..Len(ranges)} : r.startLineNumber <= lineNumber})
    IN /\ rangeThatStartsBeforeEnd # Undefined
       /\ rangeThatStartsBeforeEnd.endLineNumberExclusive > lineNumber

\* the loop of subtractFrom from index i (0-based) on
RECURSIVE subtractFromLoop(_, _, _, _, _)
subtractFromLoop(ranges, range, i, result, startLineNumber) ==
    IF i < joinRangeEndIdxExclusive(ranges, range)
    THEN subtractFromLoop(ranges, range, i + 1,
             IF ranges[i + 1].startLineNumber > startLineNumber
             THEN Append(result, LineRange(startLineNumber, ranges[i + 1].startLineNumber))
             ELSE result,
             ranges[i + 1].endLineNumberExclusive)
    ELSE IF startLineNumber < range.endLineNumberExclusive
    THEN Append(result, LineRange(startLineNumber, range.endLineNumberExclusive))
    ELSE result

\* LineRangeSet.subtractFrom: the ranges of the set it returns
subtractFrom(ranges, range) ==
    IF joinRangeStartIdx(ranges, range) = joinRangeEndIdxExclusive(ranges, range)
    THEN <<range>>
    ELSE subtractFromLoop(ranges, range, joinRangeStartIdx(ranges, range), <<>>,
                          range.startLineNumber)

\* the loop of getIntersection; i1 and i2 are 0-based
RECURSIVE getIntersectionLoop(_, _, _, _, _)
getIntersectionLoop(ranges, otherRanges, i1, i2, result) ==
    IF i1 < Len(ranges) /\ i2 < Len(otherRanges)
    THEN LET r1 == ranges[i1 + 1]
             r2 == otherRanges[i2 + 1]
             i == LineRangeIntersect(r1, r2)
             pushed == IF i # Undefined /\ ~LineRangeIsEmpty(i)
                       THEN Append(result, i) ELSE result
         IN IF r1.endLineNumberExclusive < r2.endLineNumberExclusive
            THEN getIntersectionLoop(ranges, otherRanges, i1 + 1, i2, pushed)
            ELSE getIntersectionLoop(ranges, otherRanges, i1, i2 + 1, pushed)
    ELSE result

\* LineRangeSet.getIntersection: the ranges of the set it returns
getIntersection(ranges, otherRanges) == getIntersectionLoop(ranges, otherRanges, 0, 0, <<>>)

\* line numbers, line ranges over them, and the normalized sets: one for each
\* set of line numbers, made of its maximal runs of consecutive lines
SetLines == 1..(MaxOffset + 1)
SetLineRanges ==
    {LineRange(s, e) : s \in 1..(MaxOffset + 2), e \in 1..(MaxOffset + 2)} \ {BugIndicatingError}
LinesOfRange(range) ==
    {n \in SetLines : range.startLineNumber <= n /\ n < range.endLineNumberExclusive}
RECURSIVE RunsFrom(_, _)
RunsFrom(lines, n) ==
    IF n > MaxOffset + 1 THEN <<>>
    ELSE IF n \notin lines THEN RunsFrom(lines, n + 1)
    ELSE LET end == CHOOSE e \in (n + 1)..(MaxOffset + 2) :
                        /\ \A k \in n..(e - 1) : k \in lines
                        /\ e \notin lines
         IN <<LineRange(n, end)>> \o RunsFrom(lines, end)
NormalizedRangeLists == {RunsFrom(lines, 1) : lines \in SUBSET SetLines}

LineSetAddRange ==
    /\ \E range \in SetLineRanges :
          /\ lineSetCall' = [op |-> "addRange", range |-> range, before |-> normalizedRanges]
          /\ normalizedRanges' = LineRangeSetAddRange(normalizedRanges, range)
          /\ addedLines' = addedLines \cup LinesOfRange(range)
    /\ UNCHANGED <<rangeVars, offVars, lrmVars, diffVars, setVars, limiterVars, editVars, mapVars>>

Contains ==
    /\ \E lineNumber \in 0..(MaxOffset + 2) :
          lineSetCall' = [op |-> "contains", lineNumber |-> lineNumber,
                          result |-> contains(normalizedRanges, lineNumber)]
    /\ UNCHANGED <<rangeVars, offVars, lrmVars, diffVars, setVars, limiterVars, editVars, mapVars,
                   normalizedRanges, addedLines>>

SubtractFrom ==
    /\ \E range \in SetLineRanges :
          lineSetCall' = [op |-> "subtractFrom", range |-> range,
                          result |-> subtractFrom(normalizedRanges, range)]
    /\ UNCHANGED <<rangeVars, offVars, lrmVars, diffVars, setVars, limiterVars, editVars, mapVars,
                   normalizedRanges, addedLines>>

GetIntersection ==
    /\ \E otherRanges \in NormalizedRangeLists :
          lineSetCall' = [op |-> "getIntersection", other |-> otherRanges,
                          result |-> getIntersection(normalizedRanges, otherRanges)]
    /\ UNCHANGED <<rangeVars, offVars, lrmVars, diffVars, setVars, limiterVars, editVars, mapVars,
                   normalizedRanges, addedLines>>

NextLineSet == LineSetAddRange \/ Contains \/ SubtractFrom \/ GetIntersection

(***************************************************************************)
(* Limiter: runs queued tasks with a maximum degree of parallelism.  A     *)
(* task is "unqueued", "queued" (in outstandingPromises), "pending" (its   *)
(* factory was called, its promise is not settled), "fulfilled" or         *)
(* "rejected" (settled, the consumed callback has not run yet), "consumed" *)
(* or "cleared" (removed from the queue before it was started).            *)
(***************************************************************************)
\* consume that starts every outstanding task
RECURSIVE consumeUnlimited(_, _, _)
consumeUnlimited(l, p, order) ==
    IF Len(l.outstandingPromises) > 0
    THEN consumeUnlimited([l EXCEPT !.outstandingPromises = Tail(@),
                                    !.runningPromises = @ + 1],
                          [p EXCEPT ![Head(l.outstandingPromises)] = "pending"],
                          Append(order, Head(l.outstandingPromises)))
    ELSE [limiter |-> l, promises |-> p, startOrder |-> order]

\* Limiter.consume
RECURSIVE consume(_, _, _)
consume(l, p, order) ==
    IF Len(l.outstandingPromises) > 0 /\ l.runningPromises < l.maxDegreeOfParalellism
    THEN consume([l EXCEPT !.outstandingPromises = Tail(@),
                           !.runningPromises = @ + 1],
                 [p EXCEPT ![Head(l.outstandingPromises)] = "pending"],
                 Append(order, Head(l.outstandingPromises)))
    ELSE [limiter |-> l, promises |-> p, startOrder |-> order]

\* Limiter.consumed
consumed(l, p, order) ==
    IF l.isDisposed
    THEN [limiter |-> l, promises |-> p, startOrder |-> order]
    ELSE LET decremented == [l EXCEPT !.runningPromises = @ - 1,
                                      !.size = @ - 1,
                                      !.onDrainedFired = @ \/ (l.size - 1 = 0)]
         IN IF Len(decremented.outstandingPromises) > 0
            THEN consume(decremented, p, order)
            ELSE [limiter |-> decremented, promises |-> p, startOrder |-> order]

\* the tasks of the queue are dropped
ClearedPromises(p) == [t \in Tasks |-> IF p[t] = "queued" THEN "cleared" ELSE p[t]]

\* Limiter.queue with the next task
Queue ==
    /\ limiter.isDisposed \/ \E t \in Tasks : promises[t] = "unqueued"
    /\ IF limiter.isDisposed
       THEN /\ limiterCall' = [op |-> "queue", threw |-> TRUE]
            /\ UNCHANGED <<limiter, promises, startOrder>>
       ELSE LET task == CHOOSE t \in Tasks :
                            /\ promises[t] = "unqueued"
                            /\ \A u \in 1..(t - 1) : promises[u] # "unqueued"
                after == consume([limiter EXCEPT !.size = @ + 1,
                                                 !.outstandingPromises = Append(@, task)],
                                 [promises EXCEPT ![task] = "queued"], startOrder)
            IN /\ limiter' = after.limiter
               /\ promises' = after.promises
               /\ startOrder' = after.startOrder
               /\ limiterCall' = [op |-> "queue", threw |-> FALSE]
    /\ UNCHANGED <<rangeVars, offVars, lrmVars, diffVars, setVars, lineSetVars, editVars, mapVars>>

\* the promise of a started task is fulfilled or rejected
TaskSettles ==
    /\ \E t \in Tasks, outcome \in {"fulfilled", "rejected"} :
          /\ promises[t] = "pending"
          /\ promises' = [promises EXCEPT ![t] = outcome]
    /\ limiterCall' = [op |-> "settle", threw |-> FALSE]
    /\ UNCHANGED <<rangeVars, offVars, lrmVars, diffVars, setVars, lineSetVars, editVars, mapVars,
                   limiter, startOrder>>

\* the callback of a settled promise: Limiter.consumed
Consumed ==
    /\ \E t \in Tasks :
          /\ promises[t] \in {"fulfilled", "rejected"}
          /\ LET after == consumed(limiter, [promises EXCEPT ![t] = "consumed"], startOrder)
             IN /\ limiter' = after.limiter
                /\ promises' = after.promises
                /\ startOrder' = after.startOrder
    /\ limiterCall' = [op |-> "consumed", threw |-> FALSE]
    /\ UNCHANGED <<rangeVars, offVars, lrmVars, diffVars, setVars, lineSetVars, editVars, mapVars>>

\* Limiter.clear
Clear ==
    /\ IF limiter.isDisposed
       THEN /\ limiterCall' = [op |-> "clear", threw |-> TRUE]
            /\ UNCHANGED <<limiter, promises>>
       ELSE /\ limiter' = [limiter EXCEPT !.outstandingPromises = <<>>,
                                          !.size = limiter.runningPromises]
            /\ promises' = ClearedPromises(promises)
            /\ limiterCall' = [op |-> "clear", threw |-> FALSE]
    /\ UNCHANGED <<rangeVars, offVars, lrmVars, diffVars, setVars, lineSetVars, editVars, mapVars,
                   startOrder>>

\* Limiter.dispose
Dispose ==
    /\ limiter' = [limiter EXCEPT !.isDisposed = TRUE,
                                  !.outstandingPromises = <<>>,
                                  !.size = 0]
    /\ promises' = ClearedPromises(promises)
    /\ limiterCall' = [op |-> "dispose", threw |-> FALSE]
    /\ UNCHANGED <<rangeVars, offVars, lrmVars, diffVars, setVars, lineSetVars, editVars, mapVars,
                   startOrder>>

NextLimiter == Queue \/ TaskSettles \/ Consumed \/ Clear \/ Dispose

(***************************************************************************)
(* AbstractText / ArrayText: a text is a non-empty sequence of lines.      *)
(***************************************************************************)
getLineLength(lines, lineNumber) == Len(lines[lineNumber])

\* TextLength.lineCount of LineBasedText.length: the number of line breaks
lengthLineCount(lines) == Len(lines) - 1

(***************************************************************************)
(* RangeMapping, LineRangeMapping, DetailedLineRangeMapping                *)
(***************************************************************************)
RangeMapping(originalRange, modifiedRange) ==
    [originalRange |-> originalRange, modifiedRange |-> modifiedRange]

RangeMappingFlip(m) == RangeMapping(m.modifiedRange, m.originalRange)

RangeMappingJoin(m, other) ==
    RangeMapping(plusRange(m.originalRange, other.originalRange),
                 plusRange(m.modifiedRange, other.modifiedRange))

\* a check of the original side alone
assertSortedOriginalOnly(rangeMappings) ==
    IF \E i \in 2..Len(rangeMappings) :
          ~isBeforeOrEqual(getEndPosition(rangeMappings[i - 1].originalRange),
                           getStartPosition(rangeMappings[i].originalRange))
    THEN BugIndicatingError
    ELSE Undefined

\* RangeMapping.assertSorted: throws iff some mapping starts before the end
\* of its predecessor, on the original or on the modified side
assertSorted(rangeMappings) ==
    IF \E i \in 2..Len(rangeMappings) :
          LET previous == rangeMappings[i - 1]
              current == rangeMappings[i]
          IN ~ ( /\ isBeforeOrEqual(getEndPosition(previous.originalRange),
                                    getStartPosition(current.originalRange))
                 /\ isBeforeOrEqual(getEndPosition(previous.modifiedRange),
                                    getStartPosition(current.modifiedRange)) )
    THEN BugIndicatingError
    ELSE Undefined

\* the loop of the static RangeMapping.join from the i-th mapping on
RECURSIVE RangeMappingJoinLoop(_, _, _)
RangeMappingJoinLoop(rangeMappings, i, result) ==
    IF i > Len(rangeMappings) THEN result
    ELSE RangeMappingJoinLoop(rangeMappings, i + 1, RangeMappingJoin(result, rangeMappings[i]))

\* the static RangeMapping.join
RangeMappingJoinAll(rangeMappings) ==
    IF Len(rangeMappings) = 0 THEN BugIndicatingError
    ELSE RangeMappingJoinLoop(rangeMappings, 2, rangeMappings[1])

DetailedLineRangeMapping(originalRange, modifiedRange, innerChanges) ==
    [original |-> originalRange, modified |-> modifiedRange, innerChanges |-> innerChanges]

\* a flip that leaves the inner changes as they are
DetailedLineRangeMappingFlipOuter(m) ==
    DetailedLineRangeMapping(m.modified, m.original, m.innerChanges)

\* every mapping built here carries innerChanges, so innerChanges?.map maps
DetailedLineRangeMappingFlip(m) ==
    DetailedLineRangeMapping(m.modified, m.original,
        [i \in 1..Len(m.innerChanges) |-> RangeMappingFlip(m.innerChanges[i])])

(***************************************************************************)
(* getLineRangeMapping: the line ranges of one character-level mapping.    *)
(***************************************************************************)
\* the end line is dropped whenever the modified range ends at column 1
getLineEndDeltaModifiedOnly(rangeMapping) ==
    IF rangeMapping.modifiedRange.endColumn = 1 THEN 0 - 1 ELSE 0

getLineEndDelta(rangeMapping) ==
    IF /\ rangeMapping.modifiedRange.endColumn = 1
       /\ rangeMapping.originalRange.endColumn = 1
       /\ rangeMapping.originalRange.startLineNumber + 0
            <= rangeMapping.originalRange.endLineNumber
       /\ rangeMapping.modifiedRange.startLineNumber + 0
            <= rangeMapping.modifiedRange.endLineNumber
    THEN 0 - 1 ELSE 0

\* no start line is ever skipped
getLineStartDeltaZero(rangeMapping, original, modified) == 0

\* the start line is skipped without asking whether the range is empty yet
getLineStartDeltaUnguarded(rangeMapping, original, modified) ==
    IF /\ rangeMapping.modifiedRange.startColumn - 1
            >= getLineLength(modified, rangeMapping.modifiedRange.startLineNumber)
       /\ rangeMapping.originalRange.startColumn - 1
            >= getLineLength(original, rangeMapping.originalRange.startLineNumber)
    THEN 1 ELSE 0

getLineStartDelta(rangeMapping, original, modified) ==
    LET lineEndDelta == getLineEndDelta(rangeMapping)
    IN IF /\ rangeMapping.modifiedRange.startColumn - 1
               >= getLineLength(modified, rangeMapping.modifiedRange.startLineNumber)
          /\ rangeMapping.originalRange.startColumn - 1
               >= getLineLength(original, rangeMapping.originalRange.startLineNumber)
          /\ rangeMapping.originalRange.startLineNumber
               <= rangeMapping.originalRange.endLineNumber + lineEndDelta
          /\ rangeMapping.modifiedRange.startLineNumber
               <= rangeMapping.modifiedRange.endLineNumber + lineEndDelta
       THEN 1 ELSE 0

\* the end line is dropped on the original side alone
getLineRangeMappingEndDeltaOriginalOnly(rangeMapping, original, modified) ==
    LET lineStartDelta == getLineStartDelta(rangeMapping, original, modified)
        lineEndDelta == getLineEndDelta(rangeMapping)
    IN DetailedLineRangeMapping(
           LineRange(rangeMapping.originalRange.startLineNumber + lineStartDelta,
                     rangeMapping.originalRange.endLineNumber + 1 + lineEndDelta),
           LineRange(rangeMapping.modifiedRange.startLineNumber + lineStartDelta,
                     rangeMapping.modifiedRange.endLineNumber + 1),
           <<rangeMapping>>)

getLineRangeMapping(rangeMapping, original, modified) ==
    LET lineStartDelta == getLineStartDelta(rangeMapping, original, modified)
        lineEndDelta == getLineEndDelta(rangeMapping)
        originalLineRange ==
            LineRange(rangeMapping.originalRange.startLineNumber + lineStartDelta,
                      rangeMapping.originalRange.endLineNumber + 1 + lineEndDelta)
        modifiedLineRange ==
            LineRange(rangeMapping.modifiedRange.startLineNumber + lineStartDelta,
                      rangeMapping.modifiedRange.endLineNumber + 1 + lineEndDelta)
    IN IF IsError(originalLineRange) \/ IsError(modifiedLineRange)
       THEN BugIndicatingError
       ELSE DetailedLineRangeMapping(originalLineRange, modifiedLineRange, <<rangeMapping>>)

(***************************************************************************)
(* groupAdjacentBy and lineRangeMappingFromRangeMappings                   *)
(***************************************************************************)
\* Splits items into non-empty groups; the relation shouldBeGroupedRel (a set
\* of pairs of items) decides whether two consecutive items go into the same
\* group.
groupAdjacentBy(items, shouldBeGroupedRel) ==
    LET RECURSIVE step(_, _, _)
        step(i, yielded, currentGroup) ==
            IF i > Len(items)
            THEN IF currentGroup # <<>> THEN Append(yielded, currentGroup) ELSE yielded
            ELSE IF i > 1 /\ <<items[i - 1], items[i]>> \in shouldBeGroupedRel
            THEN step(i + 1, yielded, Append(currentGroup, items[i]))
            ELSE step(i + 1,
                      IF currentGroup # <<>> THEN Append(yielded, currentGroup) ELSE yielded,
                      <<items[i]>>)
    IN step(1, <<>>, <<>>)

\* grouping by the original side alone
shouldBeGroupedOriginalOnly(a1, a2) ==
    LineRangeIntersectsOrTouches(a1.original, a2.original)

\* the grouping predicate of lineRangeMappingFromRangeMappings
shouldBeGrouped(a1, a2) ==
    \/ LineRangeIntersectsOrTouches(a1.original, a2.original)
    \/ LineRangeIntersectsOrTouches(a1.modified, a2.modified)

\* predicateRel: the pairs of items the predicate holds for
checkAdjacentItems(items, predicateRel) ==
    \A i \in 1..(Len(items) - 1) : <<items[i], items[i + 1]>> \in predicateRel

\* getLineRangeMapping applied to every alignment (alignments.map)
mapGetLineRangeMapping(rangeMappings, original, modified) ==
    [i \in 1..Len(rangeMappings) |->
        getLineRangeMapping(rangeMappings[i], original, modified)]

\* whether lineRangeMappingFromRangeMappings throws: a LineRange constructor does
lineRangeMappingFromRangeMappingsThrows(rangeMappings, original, modified) ==
    \E i \in 1..Len(rangeMappings) :
        IsError(mapGetLineRangeMapping(rangeMappings, original, modified)[i])

\* mappings that keep the inner change of the first alignment of a group only
lineRangeMappingFromRangeMappingsFirstInner(rangeMappings, original, modified) ==
    LET mapped == mapGetLineRangeMapping(rangeMappings, original, modified)
        items == {mapped[i] : i \in 1..Len(mapped)}
        groups == groupAdjacentBy(
                      mapped,
                      {p \in items \X items : shouldBeGrouped(p[1], p[2])})
    IN [k \in 1..Len(groups) |->
          LET g == groups[k]
              first == g[1]
              last == g[Len(g)]
          IN DetailedLineRangeMapping(
                 LineRangeJoin(first.original, last.original),
                 LineRangeJoin(first.modified, last.modified),
                 <<first.innerChanges[1]>>)]

\* the mappings lineRangeMappingFromRangeMappings returns when it does not
\* throw (the assertion reports a failure, it does not change the result)
lineRangeMappingFromRangeMappings(rangeMappings, original, modified) ==
    LET mapped == mapGetLineRangeMapping(rangeMappings, original, modified)
        items == {mapped[i] : i \in 1..Len(mapped)}
        groups == groupAdjacentBy(
                      mapped,
                      {p \in items \X items : shouldBeGrouped(p[1], p[2])})
    IN [k \in 1..Len(groups) |->
          LET g == groups[k]
              first == g[1]
              last == g[Len(g)]
          IN DetailedLineRangeMapping(
                 LineRangeJoin(first.original, last.original),
                 LineRangeJoin(first.modified, last.modified),
                 [j \in 1..Len(g) |-> g[j].innerChanges[1]])]

adjacentMappingsSeparated(m1, m2) ==
    /\ m2.original.startLineNumber - m1.original.endLineNumberExclusive
         = m2.modified.startLineNumber - m1.modified.endLineNumberExclusive
    /\ m1.original.endLineNumberExclusive < m2.original.startLineNumber
    /\ m1.modified.endLineNumberExclusive < m2.modified.startLineNumber

\* the condition lineRangeMappingFromRangeMappings hands to assertFn
assertFnCondition(result, original, modified, dontAssertStartLine) ==
    IF /\ ~dontAssertStartLine
       /\ Len(result) > 0
       /\ \/ result[1].modified.startLineNumber # result[1].original.startLineNumber
          \/ lengthLineCount(modified) - result[Len(result)].modified.endLineNumberExclusive
               # lengthLineCount(original) - result[Len(result)].original.endLineNumberExclusive
    THEN FALSE
    ELSE checkAdjacentItems(
             result,
             {p \in {result[i] : i \in 1..Len(result)} \X {result[i] : i \in 1..Len(result)} :
                 adjacentMappingsSeparated(p[1], p[2])})

(***************************************************************************)
(* lineRangeMappingFromRangeMappings as actions: the caller pushes sorted  *)
(* alignments whose ranges lie in the two texts, then calls the function.  *)
(***************************************************************************)
Line(k) == [i \in 1..k |-> "x"]
TextsOfLength(n) == [1..n -> {Line(k) : k \in 0..MaxTotalChars}]

RECURSIVE CharCount(_)
CharCount(lines) ==
    IF lines = <<>> THEN 0 ELSE Len(Head(lines)) + CharCount(Tail(lines))

PositionsIn(lines) ==
    {Position(l, c) : l \in 1..Len(lines), c \in 1..(MaxTotalChars + 1)}
      \ {p \in {Position(l, c) : l \in 1..Len(lines), c \in 1..(MaxTotalChars + 1)} :
            p.column > Len(lines[p.lineNumber]) + 1}

RangesIn(lines) ==
    {fromPositions(p, q) : <<p, q>> \in
        {pq \in PositionsIn(lines) \X PositionsIn(lines) : isBeforeOrEqual(pq[1], pq[2])}}

\* the ranges on the lines of a text, whose columns may lie after the line's end
RangesOnLinesOf(lines) ==
    {fromPositions(p, q) : <<p, q>> \in
        {pq \in {Position(l, c) : l \in 1..Len(lines), c \in 1..(MaxTotalChars + 2)}
                  \X {Position(l, c) : l \in 1..Len(lines), c \in 1..(MaxTotalChars + 2)} :
            isBeforeOrEqual(pq[1], pq[2])}}

LrmIdle ==
    /\ originalLines = <<>>
    /\ modifiedLines = <<>>
    /\ alignments = <<>>
    /\ changes = <<>>
    /\ assertFailed = FALSE
    /\ lrmPc = "idle"

PushAlignment ==
    /\ lrmPc = "input"
    /\ Len(alignments) < MaxAlign
    /\ \E o \in RangesIn(originalLines), m \in RangesIn(modifiedLines) :
          /\ assertSorted(Append(alignments, RangeMapping(o, m))) = Undefined
          /\ alignments' = Append(alignments, RangeMapping(o, m))
    /\ UNCHANGED <<rangeVars, offVars, setVars, lineSetVars, limiterVars, editVars, mapVars,
                   diffVars, originalLines, modifiedLines,
                   changes, assertFailed, lrmPc>>

LineRangeMappingFromRangeMappings ==
    /\ lrmPc = "input"
    /\ IF lineRangeMappingFromRangeMappingsThrows(alignments, originalLines, modifiedLines)
       THEN /\ lrmPc' = "threw"
            /\ UNCHANGED <<changes, assertFailed>>
       ELSE /\ lrmPc' = "done"
            /\ changes' = lineRangeMappingFromRangeMappings(
                              alignments, originalLines, modifiedLines)
            /\ \E dontAssertStartLine \in BOOLEAN :
                  assertFailed' = ~assertFnCondition(changes', originalLines,
                                                     modifiedLines, dontAssertStartLine)
    /\ UNCHANGED <<rangeVars, offVars, setVars, lineSetVars, limiterVars, editVars, mapVars,
                   diffVars, originalLines, modifiedLines, alignments>>

\* getLineRangeMapping called with one alignment: alignments holds the
\* argument, changes the result
GetLineRangeMapping ==
    /\ lrmPc = "input"
    /\ alignments = <<>>
    /\ \E o \in RangesOnLinesOf(originalLines), m \in RangesOnLinesOf(modifiedLines) :
          /\ alignments' = <<RangeMapping(o, m)>>
          /\ changes' = <<getLineRangeMapping(RangeMapping(o, m), originalLines,
                                              modifiedLines)>>
    /\ lrmPc' = "mapped"
    /\ UNCHANGED <<rangeVars, offVars, setVars, lineSetVars, limiterVars, editVars, mapVars,
                   diffVars, originalLines, modifiedLines, assertFailed>>

NextLRM == PushAlignment \/ LineRangeMappingFromRangeMappings \/ GetLineRangeMapping

(***************************************************************************)
(* LineRangeMapping.toRangeMapping2 and its helpers.                       *)
(***************************************************************************)
LineRangeMapping(originalRange, modifiedRange) ==
    [original |-> originalRange, modified |-> modifiedRange]

isValidLineNumber(lineNumber, lines) ==
    lineNumber >= 1 /\ lineNumber <= Len(lines)

\* normalizePosition without its clamping
normalizePositionUnclamped(position, content) == position

normalizePosition(position, content) ==
    IF position.lineNumber < 1
    THEN Position(1, 1)
    ELSE IF position.lineNumber > Len(content)
    THEN Position(Len(content), Len(content[Len(content)]) + 1)
    ELSE IF position.column > Len(content[position.lineNumber]) + 1
    THEN Position(position.lineNumber, Len(content[position.lineNumber]) + 1)
    ELSE position

toRangeMapping2(m, original, modified) ==
    IF /\ isValidLineNumber(m.original.endLineNumberExclusive, original)
       /\ isValidLineNumber(m.modified.endLineNumberExclusive, modified)
    THEN RangeMapping(
             Range(m.original.startLineNumber, 1, m.original.endLineNumberExclusive, 1),
             Range(m.modified.startLineNumber, 1, m.modified.endLineNumberExclusive, 1))
    ELSE IF ~LineRangeIsEmpty(m.original) /\ ~LineRangeIsEmpty(m.modified)
    THEN RangeMapping(
             fromPositions(
                 Position(m.original.startLineNumber, 1),
                 normalizePosition(Position(m.original.endLineNumberExclusive - 1,
                                            MAX_SAFE_INTEGER), original)),
             fromPositions(
                 Position(m.modified.startLineNumber, 1),
                 normalizePosition(Position(m.modified.endLineNumberExclusive - 1,
                                            MAX_SAFE_INTEGER), modified)))
    ELSE IF m.original.startLineNumber > 1 /\ m.modified.startLineNumber > 1
    THEN RangeMapping(
             fromPositions(
                 normalizePosition(Position(m.original.startLineNumber - 1,
                                            MAX_SAFE_INTEGER), original),
                 normalizePosition(Position(m.original.endLineNumberExclusive - 1,
                                            MAX_SAFE_INTEGER), original)),
             fromPositions(
                 normalizePosition(Position(m.modified.startLineNumber - 1,
                                            MAX_SAFE_INTEGER), modified),
                 normalizePosition(Position(m.modified.endLineNumberExclusive - 1,
                                            MAX_SAFE_INTEGER), modified)))
    ELSE BugIndicatingError

(***************************************************************************)
(* LineBasedText.getValueOfRange: a line is a sequence of characters, the  *)
(* lines of a range are joined by "\n".                                    *)
(***************************************************************************)
\* String.prototype.substring: both indices are clamped to [0, length] and
\* swapped when start is greater than end
substring(str, start, end) ==
    LET s == Max(0, Min(start, Len(str)))
        e == Max(0, Min(end, Len(str)))
    IN SubSeq(str, Min(s, e) + 1, Max(s, e))

getValueOfRange(lines, range) ==
    IF range.startLineNumber = range.endLineNumber
    THEN substring(lines[range.startLineNumber], range.startColumn - 1, range.endColumn - 1)
    ELSE LET RECURSIVE middle(_)
             middle(i) ==
                 IF i >= range.endLineNumber THEN <<>>
                 ELSE <<"\n">> \o lines[i] \o middle(i + 1)
         IN substring(lines[range.startLineNumber], range.startColumn - 1,
                      Len(lines[range.startLineNumber]))
              \o middle(range.startLineNumber + 1)
              \o <<"\n">>
              \o substring(lines[range.endLineNumber], 0, range.endColumn - 1)

(***************************************************************************)
(* The diff computers themselves (DefaultLinesDiffComputer, DiffComputer)   *)
(* are modelled from the design description of the library.                *)
(*                                                                         *)
(* The sequence diff: a shortest edit script between two element           *)
(* sequences, as maximal changed index-range pairs.  Ties between several  *)
(* shortest scripts go to the change at the earlier original position.     *)
(***************************************************************************)
SequenceDiff(seq1Range, seq2Range) ==
    [seq1Range |-> seq1Range, seq2Range |-> seq2Range]

RECURSIVE trimStart(_)
trimStart(str) ==
    IF str # <<>> /\ Head(str) = " " THEN trimStart(Tail(str)) ELSE str

RECURSIVE trimEnd(_)
trimEnd(str) ==
    IF str # <<>> /\ str[Len(str)] = " "
    THEN trimEnd(SubSeq(str, 1, Len(str) - 1)) ELSE str

trim(str) == trimEnd(trimStart(str))

\* the elements the line-level search compares
lineSequence(lines, ignoreTrimWhitespace) ==
    [i \in 1..Len(lines) |-> IF ignoreTrimWhitespace THEN trim(lines[i]) ELSE lines[i]]

\* length of a longest common subsequence of seq1[i..] and seq2[j..]
RECURSIVE lcsLength(_, _, _, _)
lcsLength(seq1, seq2, i, j) ==
    IF i > Len(seq1) \/ j > Len(seq2) THEN 0
    ELSE IF seq1[i] = seq2[j] THEN 1 + lcsLength(seq1, seq2, i + 1, j + 1)
    ELSE Max(lcsLength(seq1, seq2, i + 1, j), lcsLength(seq1, seq2, i, j + 1))

\* One walk along a shortest edit script.  i, j: next elements; i0, j0: where
\* the change that is open starts.  preferSeq1 says which side a tie skips.
sequenceDiffWalk(seq1, seq2, preferSeq1) ==
    LET RECURSIVE walk(_, _, _, _, _)
        walk(i, j, i0, j0, out) ==
            LET closed == IF i > i0 \/ j > j0
                          THEN Append(out, SequenceDiff(OffsetRange(i0 - 1, i - 1),
                                                        OffsetRange(j0 - 1, j - 1)))
                          ELSE out
                skip1 == lcsLength(seq1, seq2, i + 1, j)
                skip2 == lcsLength(seq1, seq2, i, j + 1)
            IN IF i > Len(seq1) /\ j > Len(seq2) THEN closed
               ELSE IF i <= Len(seq1) /\ j <= Len(seq2) /\ seq1[i] = seq2[j]
               THEN walk(i + 1, j + 1, i + 1, j + 1, closed)
               ELSE IF \/ j > Len(seq2)
                       \/ /\ i <= Len(seq1)
                          /\ IF preferSeq1 THEN skip1 >= skip2 ELSE skip1 > skip2
               THEN walk(i + 1, j, i0, j0, out)
               ELSE walk(i, j + 1, i0, j0, out)
    IN walk(1, 1, 1, 1, <<>>)

computeSequenceDiff(seq1, seq2) == sequenceDiffWalk(seq1, seq2, TRUE)

\* the edit script returned when the budget is exceeded: one change over all
trivialSequenceDiff(seq1, seq2) ==
    <<SequenceDiff(OffsetRange(0, Len(seq1)), OffsetRange(0, Len(seq2)))>>

(***************************************************************************)
(* Character-level refinement of one changed line group: the replacement   *)
(* of the group's text, shrunk by the common prefix and suffix.            *)
(***************************************************************************)
commonPrefixLength(a, b) ==
    CHOOSE k \in 0..Min(Len(a), Len(b)) :
        /\ \A i \in 1..k : a[i] = b[i]
        /\ k < Min(Len(a), Len(b)) => a[k + 1] # b[k + 1]

commonSuffixLength(a, b) ==
    CHOOSE k \in 0..Min(Len(a), Len(b)) :
        /\ \A i \in 1..k : a[Len(a) - i + 1] = b[Len(b) - i + 1]
        /\ k < Min(Len(a), Len(b)) => a[Len(a) - k] # b[Len(b) - k]

\* the position count characters after start (a line break is one character)
RECURSIVE positionAfter(_, _, _)
positionAfter(lines, start, count) ==
    IF count = 0 THEN start
    ELSE IF start.column <= Len(lines[start.lineNumber])
    THEN positionAfter(lines, Position(start.lineNumber, start.column + 1), count - 1)
    ELSE positionAfter(lines, Position(start.lineNumber + 1, 1), count - 1)

toLineRangeMapping(diff) ==
    LineRangeMapping(
        LineRange(diff.seq1Range.start + 1, diff.seq1Range.endExclusive + 1),
        LineRange(diff.seq2Range.start + 1, diff.seq2Range.endExclusive + 1))

refineDiff(original, modified, diff, timedOut) ==
    LET rangeMapping == toRangeMapping2(toLineRangeMapping(diff), original, modified)
        oldText == getValueOfRange(original, rangeMapping.originalRange)
        newText == getValueOfRange(modified, rangeMapping.modifiedRange)
        prefixLen == commonPrefixLength(oldText, newText)
        suffixLen == Min(Min(Len(oldText) - prefixLen, Len(newText) - prefixLen),
                         commonSuffixLength(oldText, newText))
        originalStart == getStartPosition(rangeMapping.originalRange)
        modifiedStart == getStartPosition(rangeMapping.modifiedRange)
    IN IF timedOut THEN <<rangeMapping>>
       ELSE IF oldText = newText THEN <<>>
       ELSE <<RangeMapping(
                 fromPositions(positionAfter(original, originalStart, prefixLen),
                               positionAfter(original, originalStart,
                                             Len(oldText) - suffixLen)),
                 fromPositions(positionAfter(modified, modifiedStart, prefixLen),
                               positionAfter(modified, modifiedStart,
                                             Len(newText) - suffixLen)))>>

RECURSIVE refineDiffs(_, _, _, _)
refineDiffs(original, modified, diffs, timedOut) ==
    IF diffs = <<>> THEN <<>>
    ELSE refineDiff(original, modified, Head(diffs), timedOut)
           \o refineDiffs(original, modified, Tail(diffs), timedOut)

(***************************************************************************)
(* computeDiff of the improved computer.  timeout says where the budget    *)
(* ran out: "none", "lines" (during the line-level search) or "chars"      *)
(* (after it, during the refinement of the changed line groups).           *)
(***************************************************************************)
\* no text is ever taken for identical
identicalArraysNever(original, modified) == FALSE

identicalArrays(original, modified) == original = modified

isEmptyText(lines) == Len(lines) = 1 /\ lines[1] = <<>>

wholeTextRange(lines) == Range(1, 1, Len(lines), Len(lines[Len(lines)]) + 1)

\* the one mapping returned for an empty original or an empty modified text
wholeTextMapping(original, modified) ==
    DetailedLineRangeMapping(
        LineRange(1, Len(original) + 1),
        LineRange(1, Len(modified) + 1),
        <<RangeMapping(wholeTextRange(original), wholeTextRange(modified))>>)

hitTimeoutLinesOnly(timeout, lineDiffs) == timeout = "lines"

hitTimeout(timeout, lineDiffs) ==
    timeout = "lines" \/ (timeout = "chars" /\ lineDiffs # <<>>)

computeLineDiffs(original, modified, opts, timeout) ==
    IF timeout = "lines"
    THEN trivialSequenceDiff(original, modified)
    ELSE computeSequenceDiff(lineSequence(original, opts.ignoreTrimWhitespace),
                             lineSequence(modified, opts.ignoreTrimWhitespace))

computeDiff(original, modified, opts, timeout) ==
    LET lineDiffs == computeLineDiffs(original, modified, opts, timeout)
        invalid == \E i \in 1..Len(lineDiffs) :
                      IsError(toRangeMapping2(toLineRangeMapping(lineDiffs[i]),
                                              original, modified))
        rangeMappings == refineDiffs(original, modified, lineDiffs, timeout # "none")
    IN IF identicalArrays(original, modified)
       THEN [threw |-> FALSE, searched |-> FALSE, alignments |-> <<>>,
             changes |-> <<>>, hitTimeout |-> FALSE]
       ELSE IF isEmptyText(original) \/ isEmptyText(modified)
       THEN [threw |-> FALSE, searched |-> FALSE, alignments |-> <<>>,
             changes |-> <<wholeTextMapping(original, modified)>>, hitTimeout |-> FALSE]
       ELSE IF invalid
       THEN [threw |-> TRUE, searched |-> TRUE, alignments |-> <<>>,
             changes |-> <<>>, hitTimeout |-> FALSE]
       ELSE IF lineRangeMappingFromRangeMappingsThrows(rangeMappings, original, modified)
       THEN [threw |-> TRUE, searched |-> TRUE, alignments |-> rangeMappings,
             changes |-> <<>>, hitTimeout |-> FALSE]
       ELSE [threw |-> FALSE, searched |-> TRUE, alignments |-> rangeMappings,
             changes |-> lineRangeMappingFromRangeMappings(rangeMappings, original, modified),
             hitTimeout |-> hitTimeout(timeout, lineDiffs)]

(***************************************************************************)
(* computeDiff of the legacy computer: DiffChange and ILineChange.         *)
(***************************************************************************)
DiffChange(originalStart, originalLength, modifiedStart, modifiedLength) ==
    [originalStart |-> originalStart, originalLength |-> originalLength,
     modifiedStart |-> modifiedStart, modifiedLength |-> modifiedLength]

getOriginalEnd(c) == c.originalStart + c.originalLength
getModifiedEnd(c) == c.modifiedStart + c.modifiedLength

toDiffChange(diff) ==
    DiffChange(diff.seq1Range.start, OffsetRangeLength(diff.seq1Range),
               diff.seq2Range.start, OffsetRangeLength(diff.seq2Range))

IChange(originalStart, originalEnd, modifiedStart, modifiedEnd) ==
    [originalStartLineNumber |-> originalStart,
     originalEndLineNumber |-> originalEnd,
     modifiedStartLineNumber |-> modifiedStart,
     modifiedEndLineNumber |-> modifiedEnd]

\* a side without lines gets its own one-based start line number
createLineChangeOneBased(diffChange) ==
    IChange(diffChange.originalStart + 1,
            IF diffChange.originalLength = 0 THEN 0 ELSE getOriginalEnd(diffChange),
            diffChange.modifiedStart + 1,
            IF diffChange.modifiedLength = 0 THEN 0 ELSE getModifiedEnd(diffChange))

\* One-based inclusive line numbers; a side without lines has end line 0 and,
\* as start line, the line after which the other side's lines are added.
createLineChange(diffChange) ==
    IChange(IF diffChange.originalLength = 0 THEN diffChange.originalStart
            ELSE diffChange.originalStart + 1,
            IF diffChange.originalLength = 0 THEN 0 ELSE getOriginalEnd(diffChange),
            IF diffChange.modifiedLength = 0 THEN diffChange.modifiedStart
            ELSE diffChange.modifiedStart + 1,
            IF diffChange.modifiedLength = 0 THEN 0 ELSE getModifiedEnd(diffChange))

legacyComputeDiff(original, modified, opts, timeout) ==
    LET lineDiffs == computeLineDiffs(original, modified, opts, timeout)
    IN IF identicalArrays(original, modified)
       THEN [changes |-> <<>>, quitEarly |-> FALSE]
       ELSE [changes |-> [i \in 1..Len(lineDiffs) |->
                             createLineChange(toDiffChange(lineDiffs[i]))],
             quitEarly |-> timeout = "lines"]

(***************************************************************************)
(* computeDiff as actions: one call per run, on two texts of at least one  *)
(* line each, with the options and the point where the budget ran out.     *)
(***************************************************************************)
LineValues == {<<>>, <<"a">>, <<" ", "a">>}

ExampleOriginal ==
    << <<"h", "e", "l", "l", "o">>,
       <<"o", "r", "i", "g", "i", "n", "a", "l">>,
       <<"w", "o", "r", "l", "d">> >>
ExampleModified ==
    << <<"h", "e", "l", "l", "o">>,
       <<"m", "o", "d", "i", "f", "i", "e", "d">>,
       <<"w", "o", "r", "l", "d">>,
       <<"f", "o", "o", "b", "a", "r">> >>

AbcOriginal == << <<"a">>, <<"b">>, <<"c">> >>
AbcdModified == << <<"a">>, <<"b">>, <<"c">>, <<"d">> >>

TextPairs ==
    {<<ExampleOriginal, ExampleModified>>, <<AbcOriginal, AbcdModified>>}
    \cup UNION {[1..no -> LineValues] \X [1..nm -> LineValues] :
                  <<no, nm>> \in {p \in (1..MaxTotalLines) \X (1..MaxTotalLines) :
                                     p[1] + p[2] <= MaxTotalLines}}

DiffOptions ==
    [ignoreTrimWhitespace : BOOLEAN, computeMoves : BOOLEAN, maxComputationTimeMs : {0, 1}]

\* where the budget can run out: nowhere when maxComputationTimeMs is 0
Timeouts(opts) ==
    IF opts.maxComputationTimeMs = 0 THEN {"none"} ELSE {"none", "lines", "chars"}

DiffIdle ==
    /\ options = [ignoreTrimWhitespace |-> FALSE, computeMoves |-> FALSE,
                  maxComputationTimeMs |-> 0]
    /\ timedOutAt = "none"
    /\ quitEarly = FALSE
    /\ lineChanges = <<>>
    /\ diffPc = "idle"

ComputeDiff ==
    /\ diffPc = "start"
    /\ \E t \in Timeouts(options) :
          LET r == computeDiff(originalLines, modifiedLines, options, t)
          IN /\ timedOutAt' = t
             /\ diffPc' = IF r.threw THEN "threw" ELSE "done"
             /\ alignments' = r.alignments
             /\ changes' = r.changes
             /\ quitEarly' = r.hitTimeout
             /\ assertFailed' = ( /\ r.searched
                                  /\ ~r.threw
                                  /\ ~assertFnCondition(r.changes, originalLines,
                                                        modifiedLines, FALSE) )
    /\ UNCHANGED <<rangeVars, offVars, setVars, lineSetVars, limiterVars, editVars, mapVars,
                   originalLines, modifiedLines, lrmPc,
                   options, lineChanges>>

LegacyComputeDiff ==
    /\ diffPc = "start"
    /\ \E t \in Timeouts(options) \ {"chars"} :
          LET r == legacyComputeDiff(originalLines, modifiedLines, options, t)
          IN /\ timedOutAt' = t
             /\ diffPc' = "legacyDone"
             /\ lineChanges' = r.changes
             /\ quitEarly' = r.quitEarly
    /\ UNCHANGED <<rangeVars, offVars, setVars, lineSetVars, limiterVars, editVars, mapVars,
                   originalLines, modifiedLines, alignments,
                   changes, assertFailed, lrmPc, options>>

NextDiff == ComputeDiff \/ LegacyComputeDiff

(***************************************************************************)
(* String edits.  A string is the sequence of its UTF-16 code units.       *)
(***************************************************************************)
StringValue(str) == [kind |-> "string", value |-> str]

StringReplacement(range, newText) ==
    [kind |-> "StringReplacement", replaceRange |-> range, newText |-> newText]

AnnotatedStringReplacement(range, newText, data) ==
    [kind |-> "AnnotatedStringReplacement", replaceRange |-> range,
     newText |-> newText, data |-> data]

\* a constructor that accepts any list of replacements
BaseEditUnchecked(replacements) ==
    [kind |-> "StringEdit", replacements |-> replacements]

\* BaseEdit's constructor (edit.ts) enforces that the replacements are sorted
\* and disjoint
BaseEdit(replacements) ==
    IF \E k \in 2..Len(replacements) :
          replacements[k].replaceRange.start < replacements[k - 1].replaceRange.endExclusive
    THEN BugIndicatingError
    ELSE [kind |-> "StringEdit", replacements |-> replacements]

StringEdit(replacements) == BaseEdit(replacements)

\* the loop of apply from the k-th replacement on, with pos as the code has it
RECURSIVE applyLoop(_, _, _, _)
applyLoop(replacements, base, k, pos) ==
    IF k > Len(replacements) THEN substring(base, pos, Len(base))
    ELSE substring(base, pos, replacements[k].replaceRange.start)
           \o replacements[k].newText
           \o applyLoop(replacements, base, k + 1, replacements[k].replaceRange.endExclusive)

\* a loop that keeps the replaced span
RECURSIVE applyLoopKeepSpan(_, _, _, _)
applyLoopKeepSpan(replacements, base, k, pos) ==
    IF k > Len(replacements) THEN substring(base, pos, Len(base))
    ELSE substring(base, pos, replacements[k].replaceRange.start)
           \o replacements[k].newText
           \o applyLoopKeepSpan(replacements, base, k + 1, replacements[k].replaceRange.start)

applyKeepSpan(edit, base) == applyLoopKeepSpan(edit.replacements, base, 1, 0)

apply(edit, base) == applyLoop(edit.replacements, base, 1, 0)

replace(r, str) ==
    substring(str, 0, r.replaceRange.start) \o r.newText
      \o substring(str, r.replaceRange.endExclusive, Len(str))

removeCommonSuffixPrefixUncapped(r, originalText) ==
    LET oldText == substring(originalText, r.replaceRange.start, r.replaceRange.endExclusive)
        prefixLen == commonPrefixLength(oldText, r.newText)
        suffixLen == commonSuffixLength(oldText, r.newText)
        replaceRange == OffsetRange(r.replaceRange.start + prefixLen,
                                    r.replaceRange.endExclusive - suffixLen)
        newText == substring(r.newText, prefixLen, Len(r.newText) - suffixLen)
    IN IF IsError(replaceRange) THEN replaceRange
       ELSE StringReplacement(replaceRange, newText)

\* removeCommonSuffixPrefix that removes the common prefix only
removeCommonPrefixOnly(r, originalText) ==
    LET oldText == substring(originalText, r.replaceRange.start, r.replaceRange.endExclusive)
        prefixLen == commonPrefixLength(oldText, r.newText)
    IN StringReplacement(OffsetRange(r.replaceRange.start + prefixLen,
                                     r.replaceRange.endExclusive),
                         substring(r.newText, prefixLen, Len(r.newText)))

removeCommonSuffixPrefix(r, originalText) ==
    LET oldText == substring(originalText, r.replaceRange.start, r.replaceRange.endExclusive)
        prefixLen == commonPrefixLength(oldText, r.newText)
        suffixLen == Min(Min(Len(oldText) - prefixLen, Len(r.newText) - prefixLen),
                         commonSuffixLength(oldText, r.newText))
        replaceRange == OffsetRange(r.replaceRange.start + prefixLen,
                                    r.replaceRange.endExclusive - suffixLen)
        newText == substring(r.newText, prefixLen, Len(r.newText) - suffixLen)
    IN IF IsError(replaceRange) THEN replaceRange
       ELSE StringReplacement(replaceRange, newText)

\* StringReplacement.tryJoinTouching
tryJoinTouching(r, other) ==
    LET range == joinRightTouching(r.replaceRange, other.replaceRange)
    IN IF IsError(range) THEN range
       ELSE StringReplacement(range, r.newText \o other.newText)

\* IEditData.join of the two kinds of data used here: VoidEditData joins with
\* anything, a source tag joins only with the same tag
EditDataJoin(data, other) ==
    IF data = "void" THEN data
    ELSE IF data = other THEN data ELSE "undefined"

\* AnnotatedStringReplacement.tryJoinTouching
annotatedTryJoinTouching(r, other) ==
    LET joined == EditDataJoin(r.data, other.data)
    IN IF joined = "undefined" THEN Undefined
       ELSE LET range == joinRightTouching(r.replaceRange, other.replaceRange)
            IN IF IsError(range) THEN range
               ELSE AnnotatedStringReplacement(range, r.newText \o other.newText, joined)

\* code units: "a", "b" for the texts that are compared, "x", "y" for inserted
\* text, and a base string whose code units are all different
CodeUnits == {97, 98}
StringsUpTo(n) == UNION {[1..k -> CodeUnits] : k \in 0..n}
BaseStrings == {[i \in 1..n |-> 64 + i] : n \in 0..MaxOffset}
NewTexts == {<<>>, <<120, 121>>}
EditDatas == {"void", "typed", "pasted"}
Replacements == {StringReplacement(range, newText) : range \in OffsetRanges, newText \in NewTexts}
AnnotatedReplacements ==
    {AnnotatedStringReplacement(r.replaceRange, r.newText, data) :
        r \in Replacements, data \in EditDatas}
ReplacementLists == UNION {[1..k -> Replacements] : k \in 0..MaxReplacements}

\* new StringEdit(replacements).apply(base)
Apply ==
    /\ editCall = NoCall
    /\ \E base \in BaseStrings, replacements \in ReplacementLists :
          /\ editCall' = [op |-> "apply", base |-> base, replacements |-> replacements]
          /\ editOut' = LET edit == StringEdit(replacements)
                        IN IF IsError(edit) THEN edit
                           ELSE StringValue(apply(edit, base))
    /\ UNCHANGED <<rangeVars, offVars, lrmVars, diffVars, setVars, lineSetVars, limiterVars, mapVars>>

RemoveCommonSuffixPrefix ==
    /\ editCall = NoCall
    /\ \E range \in OffsetRanges, newText \in StringsUpTo(MaxOffset),
          originalText \in StringsUpTo(MaxOffset) :
          /\ editCall' = [op |-> "removeCommonSuffixPrefix",
                          r |-> StringReplacement(range, newText),
                          originalText |-> originalText]
          /\ editOut' = removeCommonSuffixPrefix(StringReplacement(range, newText),
                                                 originalText)
    /\ UNCHANGED <<rangeVars, offVars, lrmVars, diffVars, setVars, lineSetVars, limiterVars, mapVars>>

TryJoinTouching ==
    /\ editCall = NoCall
    /\ \E a \in Replacements, b \in Replacements :
          /\ editCall' = [op |-> "tryJoinTouching", a |-> a, b |-> b]
          /\ editOut' = tryJoinTouching(a, b)
    /\ UNCHANGED <<rangeVars, offVars, lrmVars, diffVars, setVars, lineSetVars, limiterVars, mapVars>>

AnnotatedTryJoinTouching ==
    /\ editCall = NoCall
    /\ \E a \in AnnotatedReplacements, b \in AnnotatedReplacements :
          /\ editCall' = [op |-> "annotated tryJoinTouching", a |-> a, b |-> b]
          /\ editOut' = annotatedTryJoinTouching(a, b)
    /\ UNCHANGED <<rangeVars, offVars, lrmVars, diffVars, setVars, lineSetVars, limiterVars, mapVars>>

NextEdit == Apply \/ RemoveCommonSuffixPrefix \/ TryJoinTouching \/ AnnotatedTryJoinTouching

(***************************************************************************)
(* The operations of LineRangeMapping, DetailedLineRangeMapping and        *)
(* RangeMapping as calls.                                                  *)
(***************************************************************************)
LineRangeMappingFlip(m) == LineRangeMapping(m.modified, m.original)

\* a join that joins the original side only
LineRangeMappingJoinOriginalOnly(m, other) ==
    LineRangeMapping(LineRangeJoin(m.original, other.original), m.modified)

LineRangeMappingJoin(m, other) ==
    LineRangeMapping(LineRangeJoin(m.original, other.original),
                     LineRangeJoin(m.modified, other.modified))

\* a conversion that puts every mapping with an empty side at column 1
toRangeMappingColumn1(m) ==
    LET origInclusiveRange == toInclusiveRange(m.original)
        modInclusiveRange == toInclusiveRange(m.modified)
    IN IF origInclusiveRange # Undefined /\ modInclusiveRange # Undefined
       THEN RangeMapping(origInclusiveRange, modInclusiveRange)
       ELSE RangeMapping(
                Range(m.original.startLineNumber, 1, m.original.endLineNumberExclusive, 1),
                Range(m.modified.startLineNumber, 1, m.modified.endLineNumberExclusive, 1))

toRangeMapping(m) ==
    LET origInclusiveRange == toInclusiveRange(m.original)
        modInclusiveRange == toInclusiveRange(m.modified)
    IN IF origInclusiveRange # Undefined /\ modInclusiveRange # Undefined
       THEN RangeMapping(origInclusiveRange, modInclusiveRange)
       ELSE IF m.original.startLineNumber = 1 \/ m.modified.startLineNumber = 1
       THEN IF ~(m.modified.startLineNumber = 1 /\ m.original.startLineNumber = 1)
            THEN BugIndicatingError
            ELSE RangeMapping(
                     Range(m.original.startLineNumber, 1, m.original.endLineNumberExclusive, 1),
                     Range(m.modified.startLineNumber, 1, m.modified.endLineNumberExclusive, 1))
       ELSE RangeMapping(
                Range(m.original.startLineNumber - 1, MAX_SAFE_INTEGER,
                      m.original.endLineNumberExclusive - 1, MAX_SAFE_INTEGER),
                Range(m.modified.startLineNumber - 1, MAX_SAFE_INTEGER,
                      m.modified.endLineNumberExclusive - 1, MAX_SAFE_INTEGER))

\* line ranges of 1-based line numbers
LineRangesFrom1 == {r \in LineRanges : r.startLineNumber >= 1}
\* texts of at most MaxMapCoord + 1 lines of equal length and the line ranges
\* that lie in a text
MapTexts == {[i \in 1..n |-> Line(k)] : n \in 1..(MaxMapCoord + 1), k \in 0..MaxTotalChars}
LineRangesOf(lines) ==
    {LineRange(s, e) : s \in 1..(Len(lines) + 1), e \in 1..(Len(lines) + 1)}
      \ {BugIndicatingError}

LineRangeMappings ==
    {LineRangeMapping(o, m) : o \in LineRangesFrom1, m \in LineRangesFrom1}
MapPositions == {Position(l, c) : l \in 1..MaxMapCoord, c \in 1..MaxMapCoord}
MapRanges == {fromPositions(p, q) : p \in MapPositions, q \in MapPositions}
FewRanges == {Range(1, 1, 1, 1), Range(1, 2, 2, 1), Range(2, 1, 2, 2)}
FewRangeMappings == {RangeMapping(o, m) : o \in FewRanges, m \in FewRanges}
InnerChangeLists ==
    {<<c>> : c \in FewRangeMappings}
      \cup {<<c, d>> : c \in FewRangeMappings, d \in FewRangeMappings}

LineRangeMappingFlipCall ==
    /\ mapCall = NoCall
    /\ \E m \in LineRangeMappings :
          /\ mapCall' = [op |-> "LineRangeMapping.flip", m |-> m]
          /\ mapOut' = LineRangeMappingFlip(m)
    /\ UNCHANGED <<rangeVars, offVars, lrmVars, diffVars, setVars, lineSetVars, limiterVars, editVars>>

LineRangeMappingJoinCall ==
    /\ mapCall = NoCall
    /\ \E m \in LineRangeMappings, other \in LineRangeMappings :
          /\ mapCall' = [op |-> "LineRangeMapping.join", m |-> m, other |-> other]
          /\ mapOut' = LineRangeMappingJoin(m, other)
    /\ UNCHANGED <<rangeVars, offVars, lrmVars, diffVars, setVars, lineSetVars, limiterVars, editVars>>

DetailedLineRangeMappingFlipCall ==
    /\ mapCall = NoCall
    /\ \E o \in LineRangesFrom1, m \in LineRangesFrom1, innerChanges \in InnerChangeLists :
          /\ mapCall' = [op |-> "DetailedLineRangeMapping.flip",
                         m |-> DetailedLineRangeMapping(o, m, innerChanges)]
          /\ mapOut' = DetailedLineRangeMappingFlip(DetailedLineRangeMapping(o, m, innerChanges))
    /\ UNCHANGED <<rangeVars, offVars, lrmVars, diffVars, setVars, lineSetVars, limiterVars, editVars>>

RangeMappingFlipCall ==
    /\ mapCall = NoCall
    /\ \E o \in MapRanges, m \in MapRanges :
          /\ mapCall' = [op |-> "RangeMapping.flip", m |-> RangeMapping(o, m)]
          /\ mapOut' = RangeMappingFlip(RangeMapping(o, m))
    /\ UNCHANGED <<rangeVars, offVars, lrmVars, diffVars, setVars, lineSetVars, limiterVars, editVars>>

RangeMappingJoinCall ==
    /\ mapCall = NoCall
    /\ \E o1 \in MapRanges, o2 \in MapRanges, m1 \in FewRanges, m2 \in FewRanges :
          /\ mapCall' = [op |-> "RangeMapping.join", m |-> RangeMapping(o1, m1),
                         other |-> RangeMapping(o2, m2)]
          /\ mapOut' = RangeMappingJoin(RangeMapping(o1, m1), RangeMapping(o2, m2))
    /\ UNCHANGED <<rangeVars, offVars, lrmVars, diffVars, setVars, lineSetVars, limiterVars, editVars>>

ToRangeMappingCall ==
    /\ mapCall = NoCall
    /\ \E m \in LineRangeMappings :
          /\ mapCall' = [op |-> "toRangeMapping", m |-> m]
          /\ mapOut' = toRangeMapping(m)
    /\ UNCHANGED <<rangeVars, offVars, lrmVars, diffVars, setVars, lineSetVars, limiterVars, editVars>>

ToRangeMapping2Call ==
    /\ mapCall = NoCall
    /\ \E original \in MapTexts, modified \in MapTexts :
          \E o \in LineRangesOf(original), m \in LineRangesOf(modified) :
             /\ mapCall' = [op |-> "toRangeMapping2", m |-> LineRangeMapping(o, m),
                            original |-> original, modified |-> modified]
             /\ mapOut' = toRangeMapping2(LineRangeMapping(o, m), original, modified)
    /\ UNCHANGED <<rangeVars, offVars, lrmVars, diffVars, setVars, lineSetVars, limiterVars, editVars>>

\* texts of at most MaxMapCoord + 1 lines whose lines are in turn empty and
\* one character long, so that neighbouring lines differ in length
DiffTexts ==
    {[i \in 1..n |-> Line((i + k) % 2)] : n \in 1..(MaxMapCoord + 1), k \in 0..1}

\* the valid line diffs of a text of lineCountO lines and one of lineCountM
\* lines whose mappings lie at or after lines o and m: before each mapping
\* but the first there is a gap of at least one unchanged line, every gap is
\* as long on one side as on the other, the rest after the last mapping too
RECURSIVE ValidDiffsFrom(_, _, _, _, _)
ValidDiffsFrom(o, m, lineCountO, lineCountM, isFirst) ==
    (IF lineCountO - o = lineCountM - m THEN {<<>>} ELSE {})
    \cup UNION {
        {<<LineRangeMapping(LineRange(o + gap, o + gap + lenO),
                            LineRange(m + gap, m + gap + lenM))>> \o rest :
            rest \in ValidDiffsFrom(o + gap + lenO, m + gap + lenM,
                                    lineCountO, lineCountM, FALSE)} :
        gap \in {g \in (IF isFirst THEN 0 ELSE 1)..lineCountO :
                    o + g <= lineCountO + 1 /\ m + g <= lineCountM + 1},
        lenO \in 0..lineCountO, lenM \in 0..lineCountM}

ValidDiffs(original, modified) ==
    {d \in ValidDiffsFrom(1, 1, Len(original), Len(modified), TRUE) :
        \A k \in 1..Len(d) :
            /\ d[k].original.endLineNumberExclusive <= Len(original) + 1
            /\ d[k].modified.endLineNumberExclusive <= Len(modified) + 1}

\* toRangeMapping2 on one mapping of a valid line diff of two texts
ToRangeMapping2OfDiffCall ==
    /\ mapCall = NoCall
    /\ \E original \in DiffTexts, modified \in DiffTexts :
          \E diff \in ValidDiffs(original, modified) :
             \E k \in 1..Len(diff) :
                /\ mapCall' = [op |-> "toRangeMapping2 of a valid diff", m |-> diff[k],
                               diff |-> diff, original |-> original, modified |-> modified]
                /\ mapOut' = toRangeMapping2(diff[k], original, modified)
    /\ UNCHANGED <<rangeVars, offVars, lrmVars, diffVars, setVars, lineSetVars, limiterVars, editVars>>

\* lists of at most MaxAlign mappings, sorted or not
RangeMappingLists == UNION {[1..n -> FewRangeMappings] : n \in 0..MaxAlign}

AssertSortedCall ==
    /\ mapCall = NoCall
    /\ \E rangeMappings \in RangeMappingLists :
          /\ mapCall' = [op |-> "RangeMapping.assertSorted", rangeMappings |-> rangeMappings]
          /\ mapOut' = assertSorted(rangeMappings)
    /\ UNCHANGED <<rangeVars, offVars, lrmVars, diffVars, setVars, lineSetVars, limiterVars, editVars>>

RangeMappingJoinAllCall ==
    /\ mapCall = NoCall
    /\ \E rangeMappings \in RangeMappingLists :
          /\ mapCall' = [op |-> "RangeMapping.join(list)", rangeMappings |-> rangeMappings]
          /\ mapOut' = RangeMappingJoinAll(rangeMappings)
    /\ UNCHANGED <<rangeVars, offVars, lrmVars, diffVars, setVars, lineSetVars, limiterVars, editVars>>

NextMap ==
    \/ AssertSortedCall
    \/ RangeMappingJoinAllCall
    \/ ToRangeMappingCall
    \/ ToRangeMapping2Call
    \/ ToRangeMapping2OfDiffCall
    \/ LineRangeMappingFlipCall
    \/ LineRangeMappingJoinCall
    \/ DetailedLineRangeMappingFlipCall
    \/ RangeMappingFlipCall
    \/ RangeMappingJoinCall

(***************************************************************************)
(* Specifications: one per family of operations.                           *)
(***************************************************************************)
InitRange == RangeIdle /\ OffIdle /\ LrmIdle /\ DiffIdle /\ SetIdle /\ LineSetIdle /\ LimiterIdle /\ EditIdle /\ MapIdle
SpecRange == InitRange /\ [][NextRange]_vars

InitOff == RangeIdle /\ OffIdle /\ LrmIdle /\ DiffIdle /\ SetIdle /\ LineSetIdle /\ LimiterIdle /\ EditIdle /\ MapIdle
SpecOff == InitOff /\ [][NextOff]_vars

InitSet == RangeIdle /\ OffIdle /\ LrmIdle /\ DiffIdle /\ SetIdle /\ LineSetIdle /\ LimiterIdle /\ EditIdle /\ MapIdle
SpecSet == InitSet /\ [][NextSet]_vars

InitEdit == RangeIdle /\ OffIdle /\ LrmIdle /\ DiffIdle /\ SetIdle /\ LineSetIdle /\ LimiterIdle /\ EditIdle /\ MapIdle
SpecEdit == InitEdit /\ [][NextEdit]_vars

InitMap == RangeIdle /\ OffIdle /\ LrmIdle /\ DiffIdle /\ SetIdle /\ LineSetIdle /\ LimiterIdle /\ EditIdle /\ MapIdle
SpecMap == InitMap /\ [][NextMap]_vars

InitLineSet ==
    RangeIdle /\ OffIdle /\ LrmIdle /\ DiffIdle /\ SetIdle /\ LineSetIdle /\ LimiterIdle /\ EditIdle /\ MapIdle
SpecLineSet == InitLineSet /\ [][NextLineSet]_vars

InitLimiter ==
    /\ RangeIdle /\ OffIdle /\ LrmIdle /\ DiffIdle /\ SetIdle /\ LineSetIdle /\ EditIdle /\ MapIdle
    /\ \E maxDegreeOfParalellism \in 1..MaxDegree :
          limiter = NewLimiter(maxDegreeOfParalellism)
    /\ promises = [t \in Tasks |-> "unqueued"]
    /\ startOrder = <<>>
    /\ limiterCall = NoCall
SpecLimiter == InitLimiter /\ [][NextLimiter]_vars

InitLRM ==
    /\ RangeIdle /\ OffIdle /\ DiffIdle /\ SetIdle /\ LineSetIdle /\ LimiterIdle /\ EditIdle /\ MapIdle
    /\ \E no \in 1..MaxTotalLines, nm \in 1..MaxTotalLines :
          /\ no + nm <= MaxTotalLines
          /\ originalLines \in TextsOfLength(no)
          /\ modifiedLines \in TextsOfLength(nm)
    /\ CharCount(originalLines) + CharCount(modifiedLines) <= MaxTotalChars
    /\ alignments = <<>>
    /\ changes = <<>>
    /\ assertFailed = FALSE
    /\ lrmPc = "input"
SpecLRM == InitLRM /\ [][NextLRM]_vars

InitDiff ==
    /\ RangeIdle /\ OffIdle /\ SetIdle /\ LineSetIdle /\ LimiterIdle /\ EditIdle /\ MapIdle
    /\ \E pair \in TextPairs :
          /\ originalLines = pair[1]
          /\ modifiedLines = pair[2]
    /\ alignments = <<>>
    /\ changes = <<>>
    /\ assertFailed = FALSE
    /\ lrmPc = "idle"
    /\ options \in DiffOptions
    /\ timedOutAt = "none"
    /\ quitEarly = FALSE
    /\ lineChanges = <<>>
    /\ diffPc = "start"
SpecDiff == InitDiff /\ [][NextDiff]_vars

(***************************************************************************)
(* Claims about Range (checked under SpecRange).                           *)
(***************************************************************************)
RangeInvariant(r) ==
    /\ r.startLineNumber <= r.endLineNumber
    /\ (r.startLineNumber = r.endLineNumber => r.startColumn <= r.endColumn)

\* (line, column) pairs in lexicographic order
PairLeq(l1, c1, l2, c2) == l1 < l2 \/ (l1 = l2 /\ c1 <= c2)

\* C8: every Range the constructor builds from four integers satisfies
\* startLineNumber <= endLineNumber and, on equal lines, startColumn <=
\* endColumn; endpoints given out of order are swapped, so that the smaller
\* position is the start; the Ranges returned by plusRange and fromPositions
\* satisfy the same invariant.
C8_RangeNormalized ==
    /\ rangeCall.op # "none" => RangeInvariant(rangeOut)
    /\ rangeCall.op = "new" =>
         LET a == rangeCall.args
         IN IF PairLeq(a[1], a[2], a[3], a[4])
            THEN rangeOut = RawRange(a[1], a[2], a[3], a[4])
            ELSE rangeOut = RawRange(a[3], a[4], a[1], a[2])
    /\ rangeCall.op = "fromPositions" =>
         LET s == rangeCall.args[1]
             e == rangeCall.args[2]
         IN IF PairLeq(s.lineNumber, s.column, e.lineNumber, e.column)
            THEN rangeOut = RawRange(s.lineNumber, s.column, e.lineNumber, e.column)
            ELSE rangeOut = RawRange(e.lineNumber, e.column, s.lineNumber, s.column)

\* the constructor was given its endpoints out of order and swapped them
C8_Witness ==
    /\ rangeCall.op = "new"
    /\ rangeCall.args[1] > rangeCall.args[3]
    /\ rangeOut.startLineNumber = rangeCall.args[3]
    /\ rangeOut.endLineNumber = rangeCall.args[1]

(***************************************************************************)
(* Claims about OffsetRange and LineRange (checked under SpecOff).         *)
(***************************************************************************)
\* C9: constructing an OffsetRange or a LineRange fails with a
\* BugIndicatingError exactly when start > endExclusive, so every OffsetRange
\* and LineRange that exists, also those returned by delta, deltaStart,
\* deltaEnd, join, intersect, joinRightTouching and toOffsetRange, has
\* start <= endExclusive.
C9_HalfOpenRangesOrdered ==
    /\ offCall.op \in {"new OffsetRange", "new LineRange"} =>
         (IsError(offOut) <=> offCall.args[1] > offCall.args[2])
    /\ offCall.op = "OffsetRange.deltaStart" =>
         (IsError(offOut) <=>
            offCall.args[1].start + offCall.args[2] > offCall.args[1].endExclusive)
    /\ offCall.op = "OffsetRange.deltaEnd" =>
         (IsError(offOut) <=>
            offCall.args[1].start > offCall.args[1].endExclusive + offCall.args[2])
    /\ offOut.kind = "OffsetRange" => offOut.start <= offOut.endExclusive
    /\ offOut.kind = "LineRange" =>
         offOut.startLineNumber <= offOut.endLineNumberExclusive

\* a construction failed, and an operation on ranges returned a range
C9_Witness ==
    \/ /\ offCall.op = "new OffsetRange"
       /\ offCall.args[1] > offCall.args[2]
       /\ IsError(offOut)
    \/ /\ offCall.op = "OffsetRange.deltaStart"
       /\ offCall.args[2] > 0
       /\ offOut.kind = "OffsetRange"

\* the numbers a half-open range contains, and the numbers of its closure
OffsetsIn(r) == {n \in (0 - 1)..(MaxOffset + 1) : r.start <= n /\ n < r.endExclusive}
OffsetsOnOrIn(r) == {n \in (0 - 1)..(MaxOffset + 1) : r.start <= n /\ n <= r.endExclusive}
LinesIn(r) ==
    {n \in (0 - 1)..(MaxOffset + 1) : r.startLineNumber <= n /\ n < r.endLineNumberExclusive}
LinesOnOrIn(r) ==
    {n \in (0 - 1)..(MaxOffset + 1) : r.startLineNumber <= n /\ n <= r.endLineNumberExclusive}

\* C10: a.intersect(b) is undefined exactly when a and b neither overlap nor
\* touch; otherwise it is [max of starts, min of ends), it contains a number
\* iff both a and b contain it, it is empty when the ranges only touch,
\* intersect is commutative, it is defined iff intersectsOrTouches and
\* non-empty iff intersects.
C10_IntersectSemantics ==
    /\ offCall.op = "OffsetRange.intersect" =>
         LET a == offCall.args[1]
             b == offCall.args[2]
         IN /\ (offOut = Undefined) <=> (OffsetsOnOrIn(a) \cap OffsetsOnOrIn(b) = {})
            /\ offOut # Undefined =>
                 /\ offOut.kind = "OffsetRange"
                 /\ offOut.start = Max(a.start, b.start)
                 /\ offOut.endExclusive = Min(a.endExclusive, b.endExclusive)
                 /\ OffsetsIn(offOut) = OffsetsIn(a) \cap OffsetsIn(b)
                 /\ (OffsetsIn(offOut) # {}) <=> intersects(a, b)
            /\ (offOut = Undefined) => (OffsetsIn(a) \cap OffsetsIn(b) = {})
            /\ (offOut # Undefined) <=> OffsetRangeIntersectsOrTouches(a, b)
            /\ OffsetRangeIntersect(b, a) = offOut
    /\ offCall.op = "LineRange.intersect" =>
         LET a == offCall.args[1]
             b == offCall.args[2]
         IN /\ (offOut = Undefined) <=> (LinesOnOrIn(a) \cap LinesOnOrIn(b) = {})
            /\ offOut # Undefined =>
                 /\ offOut.kind = "LineRange"
                 /\ LinesIn(offOut) = LinesIn(a) \cap LinesIn(b)
            /\ (offOut # Undefined) <=> LineRangeIntersectsOrTouches(a, b)
            /\ LineRangeIntersect(b, a) = offOut

\* two ranges that only touch: the intersection is defined and empty
C10_Witness ==
    /\ offCall.op = "OffsetRange.intersect"
    /\ offCall.args[1].endExclusive = offCall.args[2].start
    /\ offCall.args[1].start < offCall.args[1].endExclusive
    /\ offCall.args[2].start < offCall.args[2].endExclusive
    /\ offOut.kind = "OffsetRange"
    /\ OffsetRangeIsEmpty(offOut)

(***************************************************************************)
(* Claims about lineRangeMappingFromRangeMappings (checked under SpecLRM). *)
(***************************************************************************)
\* every mapping lies more than one line before the next, on both sides
SeparatedByUnchangedLine(result) ==
    \A i \in 1..(Len(result) - 1) :
        /\ result[i].original.endLineNumberExclusive < result[i + 1].original.startLineNumber
        /\ result[i].modified.endLineNumberExclusive < result[i + 1].modified.startLineNumber

\* each alignment ends strictly before the next one starts, on both sides
StrictlySorted(rangeMappings) ==
    \A i \in 2..Len(rangeMappings) :
        /\ isBefore(getEndPosition(rangeMappings[i - 1].originalRange),
                    getStartPosition(rangeMappings[i].originalRange))
        /\ isBefore(getEndPosition(rangeMappings[i - 1].modifiedRange),
                    getStartPosition(rangeMappings[i].modifiedRange))

InOrderWithin(result, original, modified) ==
    /\ \A i \in 1..Len(result) :
          /\ 1 <= result[i].original.startLineNumber
          /\ result[i].original.startLineNumber <= result[i].original.endLineNumberExclusive
          /\ result[i].original.endLineNumberExclusive <= Len(original) + 1
          /\ 1 <= result[i].modified.startLineNumber
          /\ result[i].modified.startLineNumber <= result[i].modified.endLineNumberExclusive
          /\ result[i].modified.endLineNumberExclusive <= Len(modified) + 1
    /\ \A i \in 1..(Len(result) - 1) :
          /\ result[i].original.endLineNumberExclusive <= result[i + 1].original.startLineNumber
          /\ result[i].modified.endLineNumberExclusive <= result[i + 1].modified.startLineNumber

\* the ranges and the gaps between them add up to all lines of both texts
CoversBothTexts(result, original, modified) ==
    IF result = <<>>
    THEN Len(original) = Len(modified)
    ELSE /\ result[1].original.startLineNumber = result[1].modified.startLineNumber
         /\ \A i \in 1..(Len(result) - 1) :
               result[i + 1].original.startLineNumber - result[i].original.endLineNumberExclusive
                 = result[i + 1].modified.startLineNumber - result[i].modified.endLineNumberExclusive
         /\ Len(original) + 1 - result[Len(result)].original.endLineNumberExclusive
              = Len(modified) + 1 - result[Len(result)].modified.endLineNumberExclusive

\* C2: for every pair of texts and every option, the first mapping of
\* computeDiff starts at the same line on both sides, the gap between two
\* consecutive mappings has the same number of lines on both sides, and so has
\* the tail after the last mapping: ranges plus gaps give exactly the lines
\* 1..original.length and 1..modified.length.
C2_TotalCoverage ==
    diffPc = "done" =>
        /\ InOrderWithin(changes, originalLines, modifiedLines)
        /\ CoversBothTexts(changes, originalLines, modifiedLines)

C2_Witness ==
    /\ diffPc = "done"
    /\ Len(changes) >= 2
    /\ changes[1].original.startLineNumber > 1
    /\ changes[2].original.startLineNumber > changes[1].original.endLineNumberExclusive
    /\ LineRangeLength(changes[2].original) # LineRangeLength(changes[2].modified)

\* C3: computeDiff(X, X) has no changes and quitEarly = false, for every text
\* X and every option, wherever the time budget runs out.
C3_Identity ==
    (diffPc = "done" /\ originalLines = modifiedLines) =>
        (changes = <<>> /\ quitEarly = FALSE)

C3_Witness ==
    /\ diffPc = "done"
    /\ originalLines = modifiedLines
    /\ Len(originalLines) >= 2
    /\ options.maxComputationTimeMs > 0
    /\ timedOutAt = "lines"
    /\ changes = <<>>

\* the budget ran out while computeDiff was searching for a diff
BudgetExceededDuringSearch ==
    /\ ~identicalArrays(originalLines, modifiedLines)
    /\ ~isEmptyText(originalLines)
    /\ ~isEmptyText(modifiedLines)
    /\ \/ timedOutAt = "lines"
       \/ timedOutAt = "chars" /\ alignments # <<>>

\* C4: when the time budget is exceeded during the search, computeDiff still
\* returns: it does not throw, quitEarly is true, and the mappings are in
\* order, do not overlap and cover both texts completely.
C4_TimeoutStillValid ==
    /\ diffPc # "threw"
    /\ (diffPc = "done" /\ BudgetExceededDuringSearch) =>
          /\ quitEarly = TRUE
          /\ changes # <<>>
          /\ InOrderWithin(changes, originalLines, modifiedLines)
          /\ CoversBothTexts(changes, originalLines, modifiedLines)

C4_Witness ==
    /\ diffPc = "done"
    /\ BudgetExceededDuringSearch
    /\ timedOutAt = "chars"
    /\ quitEarly = TRUE
    /\ Len(changes) >= 2

ExampleRun ==
    /\ diffPc = "done"
    /\ originalLines = ExampleOriginal
    /\ modifiedLines = ExampleModified
    /\ options = [ignoreTrimWhitespace |-> TRUE, computeMoves |-> TRUE,
                  maxComputationTimeMs |-> 0]

\* C5: for ["hello","original","world"] against
\* ["hello","modified","world","foobar"] with ignoreTrimWhitespace = true,
\* computeMoves = true and no time limit, changes has exactly two mappings:
\* [2,3) -> [2,3) with one inner change over columns 1 to 9 of line 2 on both
\* sides, and the insertion [4,4) -> [4,5).
C5_WorkedExample ==
    ExampleRun =>
        /\ Len(changes) = 2
        /\ changes[1].original = LineRange(2, 3)
        /\ changes[1].modified = LineRange(2, 3)
        /\ changes[1].innerChanges = <<RangeMapping(Range(2, 1, 2, 9), Range(2, 1, 2, 9))>>
        /\ changes[2].original = LineRange(4, 4)
        /\ changes[2].modified = LineRange(4, 5)

C5_Witness ==
    /\ ExampleRun
    /\ Len(changes) = 2
    /\ changes[2].innerChanges = <<RangeMapping(Range(3, 6, 3, 6), Range(3, 6, 4, 7))>>

AbcRun ==
    /\ diffPc = "legacyDone"
    /\ originalLines = AbcOriginal
    /\ modifiedLines = AbcdModified
    /\ timedOutAt = "none"

\* C6 as stated: the legacy computer reports the insertion of line 4 after
\* line 3, ["a","b","c"] -> ["a","b","c","d"], as exactly one ILineChange with
\* originalStartLineNumber = 4, originalEndLineNumber = 0,
\* modifiedStartLineNumber = 4, modifiedEndLineNumber = 4.
C6_InsertionStartsAtLine4 ==
    AbcRun => lineChanges = <<IChange(4, 0, 4, 4)>>

\* C6 (amended): the one ILineChange has originalStartLineNumber = 3, the line
\* after which the line is added, originalEndLineNumber = 0,
\* modifiedStartLineNumber = 4 and modifiedEndLineNumber = 4.
C6_InsertionAfterLine3 ==
    AbcRun => lineChanges = <<IChange(3, 0, 4, 4)>>

C6_Witness ==
    /\ AbcRun
    /\ Len(lineChanges) = 1
    /\ lineChanges[1].originalEndLineNumber = 0

flipAll(result) ==
    [i \in 1..Len(result) |-> DetailedLineRangeMappingFlip(result[i])]

\* a run without move detection in which the budget did not run out
SymmetricRun ==
    /\ diffPc = "done"
    /\ options.computeMoves = FALSE
    /\ timedOutAt = "none"

\* There is exactly one shortest edit script between the two line sequences:
\* from (i, j) on, only one pair of equal lines can be the first one kept by
\* a longest common subsequence, and the same holds after that pair.
RECURSIVE uniqueShortestScript(_, _, _, _)
uniqueShortestScript(seq1, seq2, i, j) ==
    LET firsts == {p \in (i..Len(seq1)) \X (j..Len(seq2)) :
                      /\ seq1[p[1]] = seq2[p[2]]
                      /\ 1 + lcsLength(seq1, seq2, p[1] + 1, p[2] + 1)
                           = lcsLength(seq1, seq2, i, j)}
    IN \/ lcsLength(seq1, seq2, i, j) = 0
       \/ /\ Cardinality(firsts) = 1
          /\ \A p \in firsts : uniqueShortestScript(seq1, seq2, p[1] + 1, p[2] + 1)

UniqueScript ==
    uniqueShortestScript(lineSequence(originalLines, options.ignoreTrimWhitespace),
                         lineSequence(modifiedLines, options.ignoreTrimWhitespace), 1, 1)

SetMin(S) == CHOOSE x \in S : \A y \in S : x <= y
SetMax(S) == CHOOSE x \in S : \A y \in S : x >= y
Elements(seq) == {seq[k] : k \in 1..Len(seq)}

\* the stored ranges of before that intersect or touch range
Touched(before, range) ==
    {r \in Elements(before) : OffsetRangeIntersectsOrTouches(r, range)}

\* the union of range with the stored ranges it intersects or touches
UnionWithTouched(before, range) ==
    RawOffsetRange(
        SetMin({range.start} \cup {r.start : r \in Touched(before, range)}),
        SetMax({range.endExclusive} \cup {r.endExclusive : r \in Touched(before, range)}))

\* C11: after any sequence of addRange calls on an empty OffsetRangeSet the
\* stored ranges are sorted and maximally merged (each range ends before the
\* next one starts, they do not even touch), and an addRange call replaces
\* the stored ranges that intersect or touch the new range by their union
\* with it and leaves all other stored ranges as they were.
C11_SortedMaximallyMerged ==
    /\ \A k \in 1..(Len(sortedRanges) - 1) :
          sortedRanges[k].endExclusive < sortedRanges[k + 1].start
    /\ setCall.op = "addRange" =>
          /\ Elements(sortedRanges)
               = (Elements(setCall.before) \ Touched(setCall.before, setCall.range))
                   \cup {UnionWithTouched(setCall.before, setCall.range)}
          /\ Len(sortedRanges)
               = Len(setCall.before) - Cardinality(Touched(setCall.before, setCall.range)) + 1

C11_Witness ==
    /\ setCall.op = "addRange"
    /\ Cardinality(Touched(setCall.before, setCall.range)) >= 2
    /\ Len(sortedRanges) >= 2
    /\ \E r \in Touched(setCall.before, setCall.range) :
          r.endExclusive = setCall.range.start

(***************************************************************************)
(* Claims about string edits (checked under SpecEdit).                     *)
(***************************************************************************)
\* replacements in ascending order that do not overlap and lie inside base
SortedDisjointInRange(replacements, base) ==
    /\ \A k \in 2..Len(replacements) :
          replacements[k - 1].replaceRange.endExclusive <= replacements[k].replaceRange.start
    /\ \A k \in 1..Len(replacements) :
          replacements[k].replaceRange.endExclusive <= Len(base)

\* by how much the replacements before the k-th one move what follows them
RECURSIVE Shift(_, _)
Shift(replacements, k) ==
    IF k <= 1 THEN 0
    ELSE Shift(replacements, k - 1) + Len(replacements[k - 1].newText)
           - OffsetRangeLength(replacements[k - 1].replaceRange)

\* how many replacements end at or before offset i of the base
EndedBefore(replacements, i) ==
    Cardinality({k \in 1..Len(replacements) : replacements[k].replaceRange.endExclusive <= i})

CoveredBy(replacements, i) ==
    \E k \in 1..Len(replacements) :
        /\ replacements[k].replaceRange.start <= i
        /\ i < replacements[k].replaceRange.endExclusive

\* the replacements applied one at a time with replace(), from last to first
RECURSIVE ReplaceLastToFirst(_, _)
ReplaceLastToFirst(replacements, base) ==
    IF replacements = <<>> THEN base
    ELSE ReplaceLastToFirst(SubSeq(replacements, 1, Len(replacements) - 1),
                            replace(replacements[Len(replacements)], base))

\* C12: for sorted, disjoint replacements inside base, apply(base) returns
\* base with every replaced span exchanged for its new text and every gap
\* copied, all offsets referring to the original base: each new text stands
\* at its range's start moved by the earlier replacements' length changes,
\* each code unit outside the ranges is copied, the length changes add up,
\* and the result equals replacing one at a time from last to first.
C12_ApplyReplacesSpans ==
    (editCall.op = "apply" /\ SortedDisjointInRange(editCall.replacements, editCall.base)) =>
        /\ editOut.kind = "string"
        /\ LET rs == editCall.replacements
               base == editCall.base
               out == editOut.value
           IN /\ Len(out) = Len(base) + Shift(rs, Len(rs) + 1)
              /\ \A k \in 1..Len(rs) :
                    SubSeq(out, rs[k].replaceRange.start + Shift(rs, k) + 1,
                           rs[k].replaceRange.start + Shift(rs, k) + Len(rs[k].newText))
                      = rs[k].newText
              /\ \A i \in 0..(Len(base) - 1) :
                    ~CoveredBy(rs, i) =>
                        out[i + 1 + Shift(rs, EndedBefore(rs, i) + 1)] = base[i + 1]
              /\ out = ReplaceLastToFirst(rs, base)

C12_Witness ==
    /\ editCall.op = "apply"
    /\ Len(editCall.replacements) = 2
    /\ SortedDisjointInRange(editCall.replacements, editCall.base)
    /\ ~OffsetRangeIsEmpty(editCall.replacements[1].replaceRange)
    /\ editCall.replacements[1].newText # <<>>
    /\ editCall.replacements[1].replaceRange.endExclusive
         < editCall.replacements[2].replaceRange.start
    /\ editOut.kind = "string"
    /\ Len(editOut.value) > Len(editCall.base)

\* some replacement starts before the previous replacement's end
Overlapping(replacements) ==
    \E k \in 2..Len(replacements) :
        replacements[k].replaceRange.start < replacements[k - 1].replaceRange.endExclusive

\* C13: applying a StringEdit with overlapping replacements fails with an
\* error, no string is returned.
C13_OverlapFails ==
    (editCall.op = "apply" /\ Overlapping(editCall.replacements)) => IsError(editOut)

C13_Witness ==
    /\ editCall.op = "apply"
    /\ Len(editCall.replacements) = 2
    /\ editCall.replacements[1].replaceRange.start < editCall.replacements[2].replaceRange.start
    /\ editCall.replacements[2].replaceRange.start
         < editCall.replacements[1].replaceRange.endExclusive
    /\ editCall.replacements[2].replaceRange.endExclusive <= Len(editCall.base)
    /\ IsError(editOut)

\* C14: for a replacement r whose range lies within the text t,
\* r.removeCommonSuffixPrefix(t) never throws; the returned replacement
\* has the same effect on t as r, its range lies inside r's range, its text
\* is r's text without prefixLen leading and suffixLen trailing code units,
\* and prefixLen + suffixLen is at most the length of the replaced text and
\* at most the length of r's text.
C14_RemoveCommonSuffixPrefix ==
    (/\ editCall.op = "removeCommonSuffixPrefix"
     /\ editCall.r.replaceRange.endExclusive <= Len(editCall.originalText)) =>
        /\ ~IsError(editOut)
        /\ LET r == editCall.r
               t == editCall.originalText
               oldText == substring(t, r.replaceRange.start, r.replaceRange.endExclusive)
               prefixLen == editOut.replaceRange.start - r.replaceRange.start
               suffixLen == r.replaceRange.endExclusive - editOut.replaceRange.endExclusive
           IN /\ replace(editOut, t) = replace(r, t)
              /\ prefixLen >= 0
              /\ suffixLen >= 0
              /\ editOut.replaceRange.start <= editOut.replaceRange.endExclusive
              /\ prefixLen + suffixLen <= Min(Len(oldText), Len(r.newText))
              /\ editOut.newText = SubSeq(r.newText, prefixLen + 1, Len(r.newText) - suffixLen)

C14_Witness ==
    /\ editCall.op = "removeCommonSuffixPrefix"
    /\ ~IsError(editOut)
    /\ editOut.replaceRange.start > editCall.r.replaceRange.start
    /\ editCall.r.replaceRange.endExclusive <= Len(editCall.originalText)
    /\ commonSuffixLength(substring(editCall.originalText, editCall.r.replaceRange.start,
                                    editCall.r.replaceRange.endExclusive),
                          editCall.r.newText)
         > editCall.r.replaceRange.endExclusive - editOut.replaceRange.endExclusive

\* C15: tryJoinTouching of touching StringReplacements a, b returns the
\* replacement of [a.start, b.endExclusive) by a.newText + b.newText, which
\* changes a string as the edit [a, b] does; on AnnotatedStringReplacements
\* it returns undefined exactly when a.data.join(b.data) is undefined and
\* otherwise the joined replacement with the joined data; when the ranges do
\* not touch, a call that reaches the range join throws.
C15_TryJoinTouching ==
    /\ editCall.op = "tryJoinTouching" =>
          LET a == editCall.a
              b == editCall.b
          IN IF a.replaceRange.endExclusive = b.replaceRange.start
             THEN /\ editOut = StringReplacement(
                                  RawOffsetRange(a.replaceRange.start, b.replaceRange.endExclusive),
                                  a.newText \o b.newText)
                  /\ \A base \in BaseStrings :
                        replace(editOut, base) = apply(StringEdit(<<a, b>>), base)
             ELSE IsError(editOut)
    /\ editCall.op = "annotated tryJoinTouching" =>
          LET a == editCall.a
              b == editCall.b
              joined == EditDataJoin(a.data, b.data)
          IN /\ (editOut = Undefined) <=> (joined = "undefined")
             /\ joined # "undefined" =>
                   IF a.replaceRange.endExclusive = b.replaceRange.start
                   THEN editOut = AnnotatedStringReplacement(
                                     RawOffsetRange(a.replaceRange.start,
                                                    b.replaceRange.endExclusive),
                                     a.newText \o b.newText, joined)
                   ELSE IsError(editOut)

C15_Witness ==
    /\ editCall.op = "annotated tryJoinTouching"
    /\ editCall.a.data = "typed"
    /\ editCall.b.data = "typed"
    /\ editCall.a.replaceRange.endExclusive = editCall.b.replaceRange.start
    /\ ~OffsetRangeIsEmpty(editCall.a.replaceRange)
    /\ ~OffsetRangeIsEmpty(editCall.b.replaceRange)
    /\ editOut.kind = "AnnotatedStringReplacement"
    /\ editOut.data = "typed"

(***************************************************************************)
(* Claims about the mapping operations (checked under SpecMap).            *)
(***************************************************************************)
\* outer is the smallest line range that contains a and b
SmallestLineRangeContaining(outer, a, b) ==
    /\ outer.startLineNumber <= a.startLineNumber
    /\ outer.startLineNumber <= b.startLineNumber
    /\ outer.endLineNumberExclusive >= a.endLineNumberExclusive
    /\ outer.endLineNumberExclusive >= b.endLineNumberExclusive
    /\ outer.startLineNumber \in {a.startLineNumber, b.startLineNumber}
    /\ outer.endLineNumberExclusive \in {a.endLineNumberExclusive, b.endLineNumberExclusive}

\* outer is the smallest range that contains a and b
SmallestRangeContaining(outer, a, b) ==
    /\ containsRange(outer, a)
    /\ containsRange(outer, b)
    /\ getStartPosition(outer) \in {getStartPosition(a), getStartPosition(b)}
    /\ getEndPosition(outer) \in {getEndPosition(a), getEndPosition(b)}

\* C16: join of two LineRangeMappings (RangeMappings) is the mapping whose
\* original side is the smallest range containing both original sides and
\* whose modified side is the smallest range containing both modified sides;
\* flip swaps the sides, flipping twice gives the mapping back (inner changes
\* included), and flipping a join equals joining the flipped mappings.
C16_JoinFlip ==
    /\ mapCall.op = "LineRangeMapping.flip" =>
          /\ mapOut.original = mapCall.m.modified
          /\ mapOut.modified = mapCall.m.original
          /\ LineRangeMappingFlip(mapOut) = mapCall.m
    /\ mapCall.op = "DetailedLineRangeMapping.flip" =>
          /\ mapOut.original = mapCall.m.modified
          /\ mapOut.modified = mapCall.m.original
          /\ Len(mapOut.innerChanges) = Len(mapCall.m.innerChanges)
          /\ \A i \in 1..Len(mapOut.innerChanges) :
                /\ mapOut.innerChanges[i].originalRange = mapCall.m.innerChanges[i].modifiedRange
                /\ mapOut.innerChanges[i].modifiedRange = mapCall.m.innerChanges[i].originalRange
          /\ DetailedLineRangeMappingFlip(mapOut) = mapCall.m
    /\ mapCall.op = "RangeMapping.flip" =>
          /\ mapOut.originalRange = mapCall.m.modifiedRange
          /\ mapOut.modifiedRange = mapCall.m.originalRange
          /\ RangeMappingFlip(mapOut) = mapCall.m
    /\ mapCall.op = "LineRangeMapping.join" =>
          /\ SmallestLineRangeContaining(mapOut.original, mapCall.m.original,
                                         mapCall.other.original)
          /\ SmallestLineRangeContaining(mapOut.modified, mapCall.m.modified,
                                         mapCall.other.modified)
          /\ LineRangeMappingFlip(mapOut)
               = LineRangeMappingJoin(LineRangeMappingFlip(mapCall.m),
                                      LineRangeMappingFlip(mapCall.other))
    /\ mapCall.op = "RangeMapping.join" =>
          /\ SmallestRangeContaining(mapOut.originalRange, mapCall.m.originalRange,
                                     mapCall.other.originalRange)
          /\ SmallestRangeContaining(mapOut.modifiedRange, mapCall.m.modifiedRange,
                                     mapCall.other.modifiedRange)
          /\ RangeMappingFlip(mapOut)
               = RangeMappingJoin(RangeMappingFlip(mapCall.m),
                                  RangeMappingFlip(mapCall.other))

C16_Witness ==
    /\ mapCall.op = "LineRangeMapping.join"
    /\ mapCall.m.original.endLineNumberExclusive < mapCall.other.original.startLineNumber
    /\ mapCall.other.modified.endLineNumberExclusive < mapCall.m.modified.startLineNumber
    /\ mapOut.original # mapOut.modified
    /\ mapOut.original.startLineNumber = mapCall.m.original.startLineNumber
    /\ mapOut.modified.startLineNumber = mapCall.other.modified.startLineNumber

\* one side of the mapping is empty
OneSideEmpty(m) == LineRangeIsEmpty(m.original) \/ LineRangeIsEmpty(m.modified)

\* both ranges are (start, 1)-(endExclusive, 1)
AtColumn1(out, m) ==
    /\ out.originalRange
         = RawRange(m.original.startLineNumber, 1, m.original.endLineNumberExclusive, 1)
    /\ out.modifiedRange
         = RawRange(m.modified.startLineNumber, 1, m.modified.endLineNumberExclusive, 1)

\* both ranges are (start - 1, column)-(endExclusive - 1, column) with the
\* largest column: MAX_SAFE_INTEGER in toRangeMapping, the column after the
\* last character of the line in toRangeMapping2
AnchoredAtPrecedingLine(out, m) ==
    /\ out.originalRange
         = RawRange(m.original.startLineNumber - 1, MAX_SAFE_INTEGER,
                    m.original.endLineNumberExclusive - 1, MAX_SAFE_INTEGER)
    /\ out.modifiedRange
         = RawRange(m.modified.startLineNumber - 1, MAX_SAFE_INTEGER,
                    m.modified.endLineNumberExclusive - 1, MAX_SAFE_INTEGER)

LineEnd(lineNumber, lines) == Position(lineNumber, Len(lines[lineNumber]) + 1)

AnchoredAtPrecedingLineEnd(out, m, original, modified) ==
    /\ out.originalRange
         = fromPositions(LineEnd(m.original.startLineNumber - 1, original),
                         LineEnd(m.original.endLineNumberExclusive - 1, original))
    /\ out.modifiedRange
         = fromPositions(LineEnd(m.modified.startLineNumber - 1, modified),
                         LineEnd(m.modified.endLineNumberExclusive - 1, modified))

BothStartAtLine1(m) == m.original.startLineNumber = 1 /\ m.modified.startLineNumber = 1
BothStartAfterLine1(m) == m.original.startLineNumber > 1 /\ m.modified.startLineNumber > 1

EmptySideBecomesEmptyRange(out, m) ==
    /\ LineRangeIsEmpty(m.original) => RangeIsEmpty(out.originalRange)
    /\ LineRangeIsEmpty(m.modified) => RangeIsEmpty(out.modifiedRange)

\* what C17 says of toRangeMapping
ToRangeMappingEmptySide ==
    mapCall.op = "toRangeMapping" /\ OneSideEmpty(mapCall.m) =>
        IF IsError(mapOut)
        THEN ~BothStartAtLine1(mapCall.m) /\ ~BothStartAfterLine1(mapCall.m)
        ELSE /\ EmptySideBecomesEmptyRange(mapOut, mapCall.m)
             /\ BothStartAtLine1(mapCall.m) \/ BothStartAfterLine1(mapCall.m)
             /\ BothStartAtLine1(mapCall.m) => AtColumn1(mapOut, mapCall.m)
             /\ BothStartAfterLine1(mapCall.m) => AnchoredAtPrecedingLine(mapOut, mapCall.m)

\* C17 as stated: in toRangeMapping and in toRangeMapping2, whenever they
\* return, an empty side becomes an empty Range; with one side empty and both
\* sides starting at line 1 the ranges are (start,1)-(endExclusive,1); with
\* one side empty and both sides starting after line 1 the ranges are
\* anchored at the end of the preceding line; toRangeMapping throws when one
\* side is empty and exactly one side starts at line 1.
C17_EmptySideAnchored ==
    /\ ToRangeMappingEmptySide
    /\ (mapCall.op = "toRangeMapping2" /\ OneSideEmpty(mapCall.m) /\ ~IsError(mapOut)) =>
          /\ EmptySideBecomesEmptyRange(mapOut, mapCall.m)
          /\ BothStartAtLine1(mapCall.m) => AtColumn1(mapOut, mapCall.m)
          /\ BothStartAfterLine1(mapCall.m) =>
                AnchoredAtPrecedingLineEnd(mapOut, mapCall.m, mapCall.original,
                                           mapCall.modified)

\* C17 (amended): as above for toRangeMapping; toRangeMapping2 anchors a
\* mapping with an empty side at the end of the preceding line only when an
\* endLineNumberExclusive is not a line of its text, and otherwise returns
\* (start,1)-(endExclusive,1) wherever the sides start.
C17_EmptySideByStrategy ==
    /\ ToRangeMappingEmptySide
    /\ (mapCall.op = "toRangeMapping2" /\ OneSideEmpty(mapCall.m) /\ ~IsError(mapOut)) =>
          /\ EmptySideBecomesEmptyRange(mapOut, mapCall.m)
          /\ BothStartAtLine1(mapCall.m) => AtColumn1(mapOut, mapCall.m)
          /\ IF /\ isValidLineNumber(mapCall.m.original.endLineNumberExclusive,
                                     mapCall.original)
                /\ isValidLineNumber(mapCall.m.modified.endLineNumberExclusive,
                                     mapCall.modified)
             THEN AtColumn1(mapOut, mapCall.m)
             ELSE /\ BothStartAfterLine1(mapCall.m)
                  /\ AnchoredAtPrecedingLineEnd(mapOut, mapCall.m, mapCall.original,
                                                mapCall.modified)

C17_Witness ==
    /\ mapCall.op = "toRangeMapping2"
    /\ LineRangeIsEmpty(mapCall.m.original)
    /\ ~LineRangeIsEmpty(mapCall.m.modified)
    /\ BothStartAfterLine1(mapCall.m)
    /\ isValidLineNumber(mapCall.m.original.endLineNumberExclusive, mapCall.original)
    /\ isValidLineNumber(mapCall.m.modified.endLineNumberExclusive, mapCall.modified)
    /\ AtColumn1(mapOut, mapCall.m)

(***************************************************************************)
(* Claims about lineRangeMappingFromRangeMappings and getLineRangeMapping  *)
(* (checked under SpecLRM).                                                *)
(***************************************************************************)
RECURSIVE InnerChangesConcat(_)
InnerChangesConcat(mappings) ==
    IF mappings = <<>> THEN <<>>
    ELSE Head(mappings).innerChanges \o InnerChangesConcat(Tail(mappings))

\* the number of alignments in the first k mappings
AlignmentsUpTo(mappings, k) == Len(InnerChangesConcat(SubSeq(mappings, 1, k)))

\* the mappings that hold the i-th alignment
MappingsOf(mappings, i) ==
    {k \in 1..Len(mappings) :
        AlignmentsUpTo(mappings, k - 1) < i /\ i <= AlignmentsUpTo(mappings, k)}

\* the line ranges of two alignments intersect or touch on one of the sides
LineRangesIntersectOrTouch(a1, a2) ==
    \/ /\ a1.original.startLineNumber <= a2.original.endLineNumberExclusive
       /\ a2.original.startLineNumber <= a1.original.endLineNumberExclusive
    \/ /\ a1.modified.startLineNumber <= a2.modified.endLineNumberExclusive
       /\ a2.modified.startLineNumber <= a1.modified.endLineNumberExclusive

\* C18: lineRangeMappingFromRangeMappings puts two consecutive alignments
\* into the same output mapping exactly when their line ranges intersect or
\* touch on the original or on the modified side; the innerChanges of the
\* output mappings, concatenated in order, are the input alignments in their
\* order; every output mapping has innerChanges, and the output is empty iff
\* the input is.
C18_GroupingKeepsAlignments ==
    lrmPc = "done" =>
        /\ InnerChangesConcat(changes) = alignments
        /\ \A k \in 1..Len(changes) : changes[k].innerChanges # <<>>
        /\ (changes = <<>>) <=> (alignments = <<>>)
        /\ \A i \in 1..(Len(alignments) - 1) :
              (MappingsOf(changes, i) = MappingsOf(changes, i + 1))
                <=> LineRangesIntersectOrTouch(
                        getLineRangeMapping(alignments[i], originalLines, modifiedLines),
                        getLineRangeMapping(alignments[i + 1], originalLines, modifiedLines))

C18_Witness ==
    /\ lrmPc = "done"
    /\ Len(alignments) = 2
    /\ Len(changes) = 1
    /\ Len(changes[1].innerChanges) = 2
    /\ getLineRangeMapping(alignments[1], originalLines, modifiedLines).original.endLineNumberExclusive
         < getLineRangeMapping(alignments[2], originalLines, modifiedLines).original.startLineNumber

\* C19: getLineRangeMapping leaves out the end line on both sides or on
\* neither, and only when both ranges end at column 1; it skips the start
\* line on both sides or on neither, and only when both ranges start at or
\* after the end of their line; so the same start delta and the same end
\* delta are applied to the original and to the modified line range.
C19_SameDeltasOnBothSides ==
    lrmPc = "mapped" =>
        /\ ~IsError(changes[1])
        /\ LET a == alignments[1]
               lineStartDelta == changes[1].original.startLineNumber
                                   - a.originalRange.startLineNumber
               lineEndDelta == changes[1].original.endLineNumberExclusive
                                 - (a.originalRange.endLineNumber + 1)
           IN /\ lineStartDelta \in {0, 1}
              /\ lineEndDelta \in {0 - 1, 0}
              /\ changes[1].modified.startLineNumber
                   = a.modifiedRange.startLineNumber + lineStartDelta
              /\ changes[1].modified.endLineNumberExclusive
                   = a.modifiedRange.endLineNumber + 1 + lineEndDelta
              /\ lineEndDelta = 0 - 1 =>
                    a.originalRange.endColumn = 1 /\ a.modifiedRange.endColumn = 1
              /\ lineStartDelta = 1 =>
                    /\ a.originalRange.startColumn - 1
                         >= Len(originalLines[a.originalRange.startLineNumber])
                    /\ a.modifiedRange.startColumn - 1
                         >= Len(modifiedLines[a.modifiedRange.startLineNumber])
              /\ changes[1].innerChanges = <<a>>

C19_Witness ==
    /\ lrmPc = "mapped"
    /\ ~IsError(changes[1])
    /\ alignments[1].originalRange.endColumn = 1
    /\ alignments[1].originalRange.endLineNumber > alignments[1].originalRange.startLineNumber
    /\ alignments[1].modifiedRange.endColumn = 1
    /\ alignments[1].originalRange.startColumn = 1
    /\ changes[1].original.endLineNumberExclusive = alignments[1].originalRange.endLineNumber
    /\ changes[1].modified.endLineNumberExclusive = alignments[1].modifiedRange.endLineNumber

\* C20: when the check at the end of lineRangeMappingFromRangeMappings fails,
\* the computation is aborted and no change list is returned.
C20_FailedCheckAborts ==
    assertFailed => lrmPc # "done"

\* the end of range previous lies after the start of range current
EndsAfterStartOf(previous, current) ==
    ~PairLeq(previous.endLineNumber, previous.endColumn,
             current.startLineNumber, current.startColumn)

\* outer is the smallest range that contains every range of the set
SmallestRangeContainingAll(outer, ranges) ==
    /\ \A r \in ranges : containsRange(outer, r)
    /\ getStartPosition(outer) \in {getStartPosition(r) : r \in ranges}
    /\ getEndPosition(outer) \in {getEndPosition(r) : r \in ranges}

\* C21: RangeMapping.assertSorted throws a BugIndicatingError exactly when
\* for some consecutive pair the previous mapping ends after the start of the
\* current one, on the original or on the modified side (touching is
\* accepted), and returns normally otherwise; the static RangeMapping.join
\* throws on the empty list and otherwise returns the smallest mapping that
\* encloses all elements.
C21_MalformedListsRejected ==
    /\ mapCall.op = "RangeMapping.assertSorted" =>
          LET ms == mapCall.rangeMappings
          IN /\ IsError(mapOut) <=>
                   \E i \in 2..Len(ms) :
                       \/ EndsAfterStartOf(ms[i - 1].originalRange, ms[i].originalRange)
                       \/ EndsAfterStartOf(ms[i - 1].modifiedRange, ms[i].modifiedRange)
             /\ ~IsError(mapOut) => mapOut = Undefined
    /\ mapCall.op = "RangeMapping.join(list)" =>
          LET ms == mapCall.rangeMappings
          IN /\ IsError(mapOut) <=> ms = <<>>
             /\ ms # <<>> =>
                   /\ SmallestRangeContainingAll(
                          mapOut.originalRange, {ms[i].originalRange : i \in 1..Len(ms)})
                   /\ SmallestRangeContainingAll(
                          mapOut.modifiedRange, {ms[i].modifiedRange : i \in 1..Len(ms)})

C21_Witness ==
    /\ mapCall.op = "RangeMapping.assertSorted"
    /\ Len(mapCall.rangeMappings) = 2
    /\ mapCall.rangeMappings[1].originalRange = Range(1, 2, 2, 1)
    /\ mapCall.rangeMappings[2].originalRange = Range(2, 1, 2, 2)
    /\ mapCall.rangeMappings[1].modifiedRange = Range(1, 1, 1, 1)
    /\ mapCall.rangeMappings[2].modifiedRange = Range(1, 2, 2, 1)
    /\ mapOut = Undefined

\* C22: for Ranges a and b, a.plusRange(b) contains a and b, every Range
\* that contains a and b contains it, b.plusRange(a) is the same Range, and
\* a.plusRange(a) is a.
C22_PlusRangeSmallestEnclosing ==
    (/\ rangeCall.op = "plusRange"
     /\ RangeInvariant(rangeCall.args[1])
     /\ RangeInvariant(rangeCall.args[2])) =>
        LET a == rangeCall.args[1]
            b == rangeCall.args[2]
        IN /\ containsRange(rangeOut, a)
           /\ containsRange(rangeOut, b)
           /\ \A c \in IRanges :
                 (RangeInvariant(c) /\ containsRange(c, a) /\ containsRange(c, b))
                     => containsRange(c, rangeOut)
           /\ rangeOut = plusRange(b, a)
           /\ a = b => rangeOut = a

C22_Witness ==
    /\ rangeCall.op = "plusRange"
    /\ RangeInvariant(rangeCall.args[1])
    /\ RangeInvariant(rangeCall.args[2])
    /\ rangeCall.args[1].startLineNumber = rangeCall.args[2].startLineNumber
    /\ rangeCall.args[1].startColumn > rangeCall.args[2].startColumn
    /\ rangeCall.args[1].endLineNumber > rangeCall.args[2].endLineNumber
    /\ rangeOut # rangeCall.args[1]
    /\ rangeOut # rangeCall.args[2]

\* the offsets covered by the stored ranges
CoveredOffsets(ranges) == UNION {OffsetsOf(ranges[k]) : k \in 1..Len(ranges)}

\* C23: intersectsStrict(r) is true exactly when some offset n lies in a
\* stored range and in r (r.start <= n < r.endExclusive), also for empty r.
C23_IntersectsStrictIffCommonOffset ==
    setCall.op = "intersectsStrict" =>
        (setCall.result <=> (CoveredOffsets(sortedRanges) \cap OffsetsOf(setCall.range) # {}))

\* C28: the offsets covered by the stored ranges are the offsets of all
\* added ranges, length is the number of covered offsets, and
\* intersectWithRangeLength(r) is the number of covered offsets that lie in r.
C28_CoveredOffsetsPreserved ==
    /\ CoveredOffsets(sortedRanges) = addedOffsets
    /\ setCall.op = "length" => setCall.result = Cardinality(CoveredOffsets(sortedRanges))
    /\ setCall.op = "intersectWithRangeLength" =>
          setCall.result
            = Cardinality(CoveredOffsets(sortedRanges) \cap OffsetsOf(setCall.range))

C28_Witness ==
    /\ setCall.op = "intersectWithRangeLength"
    /\ Len(sortedRanges) = 2
    /\ OffsetRangeIsEmpty(sortedRanges[1])
    /\ setCall.range.start < sortedRanges[2].start
    /\ sortedRanges[2].start < setCall.range.endExclusive
    /\ setCall.range.endExclusive < sortedRanges[2].endExclusive
    /\ setCall.result = 1

(***************************************************************************)
(* Claims about LineRangeSet (checked under SpecLineSet).                  *)
(***************************************************************************)
\* the line numbers covered by a list of line ranges
LinesCovered(ranges) == UNION {LinesOfRange(ranges[k]) : k \in 1..Len(ranges)}

SortedByStart(ranges) ==
    \A k \in 1..(Len(ranges) - 1) : ranges[k].startLineNumber <= ranges[k + 1].startLineNumber

NoEmptyRange(ranges) ==
    \A k \in 1..Len(ranges) : ranges[k].startLineNumber < ranges[k].endLineNumberExclusive

\* C24: after any sequence of addRange calls on an empty LineRangeSet the
\* stored ranges are sorted by start line, no two of them touch or intersect,
\* none is empty (adding an empty range changes nothing), and contains(n) is
\* true exactly for the line numbers of the added ranges.
C24_LineRangeSetNormalized ==
    /\ \A k \in 1..(Len(normalizedRanges) - 1) :
          normalizedRanges[k].endLineNumberExclusive < normalizedRanges[k + 1].startLineNumber
    /\ NoEmptyRange(normalizedRanges)
    /\ LinesCovered(normalizedRanges) = addedLines
    /\ (lineSetCall.op = "addRange" /\ LineRangeIsEmpty(lineSetCall.range)) =>
          normalizedRanges = lineSetCall.before
    /\ lineSetCall.op = "contains" =>
          (lineSetCall.result <=> lineSetCall.lineNumber \in addedLines)

C24_Witness ==
    /\ lineSetCall.op = "contains"
    /\ lineSetCall.result
    /\ Len(normalizedRanges) = 2
    /\ lineSetCall.lineNumber > normalizedRanges[2].startLineNumber

InsideDocument(lineNumber, column, lines) ==
    /\ 1 <= lineNumber /\ lineNumber <= Len(lines)
    /\ 1 <= column /\ column <= Len(lines[lineNumber]) + 1

RangeInsideDocument(range, lines) ==
    /\ InsideDocument(range.startLineNumber, range.startColumn, lines)
    /\ InsideDocument(range.endLineNumber, range.endColumn, lines)

\* C26: for every mapping of a valid line diff of two non-empty line arrays
\* toRangeMapping2 does not reach its final throw, and every position it
\* returns lies inside its document.
C26_ValidDiffNeverThrows ==
    mapCall.op = "toRangeMapping2 of a valid diff" =>
        /\ mapOut # BugIndicatingError
        /\ RangeInsideDocument(mapOut.originalRange, mapCall.original)
        /\ RangeInsideDocument(mapOut.modifiedRange, mapCall.modified)

\* an insertion after the last line of the original text, which is not the
\* first mapping of its diff
C26_Witness ==
    /\ mapCall.op = "toRangeMapping2 of a valid diff"
    /\ Len(mapCall.diff) = 2
    /\ mapCall.m = mapCall.diff[2]
    /\ LineRangeIsEmpty(mapCall.m.original)
    /\ mapCall.m.original.startLineNumber = Len(mapCall.original) + 1
    /\ mapCall.m.modified.endLineNumberExclusive = Len(mapCall.modified) + 1
    /\ mapOut.modifiedRange.startColumn = 2

\* C27: for a replacement r within the text t the result of
\* r.removeCommonSuffixPrefix(t) is minimal: when its replaced span and its
\* newText are both non-empty their first characters differ and their last
\* characters differ; when r is neutral on t the result has an empty range
\* and an empty newText.
C27_ResultIsMinimal ==
    (/\ editCall.op = "removeCommonSuffixPrefix"
     /\ editCall.r.replaceRange.endExclusive <= Len(editCall.originalText)) =>
        LET t == editCall.originalText
            span == substring(t, editOut.replaceRange.start, editOut.replaceRange.endExclusive)
            replaced == substring(t, editCall.r.replaceRange.start,
                                  editCall.r.replaceRange.endExclusive)
        IN /\ (span # <<>> /\ editOut.newText # <<>>) =>
                 /\ span[1] # editOut.newText[1]
                 /\ span[Len(span)] # editOut.newText[Len(editOut.newText)]
           /\ editCall.r.newText = replaced =>
                 /\ editOut.replaceRange.start = editOut.replaceRange.endExclusive
                 /\ editOut.newText = <<>>

\* a prefix and a suffix are removed and something is left on both sides
C27_Witness ==
    /\ editCall.op = "removeCommonSuffixPrefix"
    /\ editCall.r.replaceRange.endExclusive <= Len(editCall.originalText)
    /\ editOut.replaceRange.start > editCall.r.replaceRange.start
    /\ editOut.replaceRange.endExclusive < editCall.r.replaceRange.endExclusive
    /\ editOut.replaceRange.start < editOut.replaceRange.endExclusive
    /\ editOut.newText # <<>>

\* C29: getLineRangeMapping never fails: for every mapping of two ranges on
\* lines of the two texts both LineRange constructions succeed, start +
\* lineStartDelta <= endLineNumber + 1 + lineEndDelta on both sides, also for
\* an empty range and when both the start line could be skipped and the end
\* line left out.
C29_LineRangesNeverFail ==
    lrmPc = "mapped" =>
        LET a == alignments[1]
            lineStartDelta == getLineStartDelta(a, originalLines, modifiedLines)
            lineEndDelta == getLineEndDelta(a)
        IN /\ a.originalRange.startLineNumber + lineStartDelta
                <= a.originalRange.endLineNumber + 1 + lineEndDelta
           /\ a.modifiedRange.startLineNumber + lineStartDelta
                <= a.modifiedRange.endLineNumber + 1 + lineEndDelta
           /\ changes[1] # BugIndicatingError

\* an empty range at column 1 of an empty line on both sides: the end line
\* is left out and the start line, at its end, is not skipped any more
C29_Witness ==
    /\ lrmPc = "mapped"
    /\ alignments[1].originalRange.startLineNumber = alignments[1].originalRange.endLineNumber
    /\ alignments[1].originalRange.startColumn = alignments[1].originalRange.endColumn
    /\ alignments[1].modifiedRange.startLineNumber = alignments[1].modifiedRange.endLineNumber
    /\ alignments[1].modifiedRange.startColumn = alignments[1].modifiedRange.endColumn
    /\ alignments[1].originalRange.endColumn = 1
    /\ alignments[1].modifiedRange.endColumn = 1
    /\ originalLines[alignments[1].originalRange.startLineNumber] = <<>>
    /\ modifiedLines[alignments[1].modifiedRange.startLineNumber] = <<>>
    /\ changes[1] # BugIndicatingError
    /\ changes[1].original.startLineNumber = changes[1].original.endLineNumberExclusive

(***************************************************************************)
(* Claims about Limiter (checked under SpecLimiter).                       *)
(***************************************************************************)
\* tasks whose promise is running
PendingTasks == {t \in Tasks : promises[t] = "pending"}
\* tasks that were started and whose completion the limiter has not handled
UnconsumedTasks == {t \in Tasks : promises[t] \in {"pending", "fulfilled", "rejected"}}
QueuedTasks == {t \in Tasks : promises[t] = "queued"}

\* C30: for a Limiter with maximum degree of parallelism M >= 1, under every
\* interleaving of queue, task completion, clear and dispose, never more
\* than M task promises are running, tasks are started in the order in which
\* they were queued, and until dispose size is the number of queued tasks
\* that are not started plus the number of running tasks (those the limiter
\* counts in runningPromises).
C30_LimiterBoundsParallelism ==
    /\ Cardinality(PendingTasks) <= limiter.maxDegreeOfParalellism
    /\ limiter.runningPromises <= limiter.maxDegreeOfParalellism
    /\ \A i \in 1..Len(startOrder), j \in 1..Len(startOrder) :
          i < j => startOrder[i] < startOrder[j]
    /\ ~limiter.isDisposed =>
          /\ limiter.runningPromises = Cardinality(UnconsumedTasks)
          /\ Len(limiter.outstandingPromises) = Cardinality(QueuedTasks)
          /\ limiter.size = Cardinality(QueuedTasks) + Cardinality(UnconsumedTasks)

\* all M slots are taken, a task waits, and an earlier task has completed,
\* so that a waiting task was started by the consumed callback
C30_Witness ==
    /\ ~limiter.isDisposed
    /\ Cardinality(PendingTasks) = limiter.maxDegreeOfParalellism
    /\ limiter.maxDegreeOfParalellism = MaxDegree
    /\ \E t \in Tasks : promises[t] = "consumed"
    /\ limiter.size = MaxDegree

==============================================================================
